---------------------------- MODULE Spec2Model ----------------------------
(* Model of the s3gw release tool: the Version value type, the per-       *)
(* repository ref index, and the Start / Continue / Finish orchestration  *)
(* over the four repositories (s3gw, ui, charts, ceph).                   *)
(*                                                                        *)
(* One command runs at a time (single-operator CLI).  A command is a      *)
(* sequence of steps; `pc` is the position of the running command.  Each  *)
(* step that calls git, the file system, the prompt or GitHub either      *)
(* succeeds or fails, as the environment decides.                         *)
EXTENDS Integers, Sequences, FiniteSets, TLC

\* ------------------------------------------------------------------ bounds
\* Highest release-candidate number a Continue may produce in the model.
MaxRc == 2
\* Number of steps the environment may make fail (a rejected push, a failed
\* fetch, a refused prompt, ...) in one behaviour.
MaxFailures == 1
\* Highest major and minor number of the versions handed to the Version
\* functions.
MaxMajor == 1
MaxMinor == 1
\* Highest number of lines of a chart file.
MaxLines == 2
\* Highest number of refs of a repository.
MaxRefs == 3
MaxRuns == 2

\* ----------------------------------------------------------------- Version
\* Option<u64>::None for `patch` and `rc`.
None == -1

Version(ma, mi, p, r) == [major |-> ma, minor |-> mi, patch |-> p, rc |-> r]

get_version_id(v) ==
    LET patch == IF v.patch = None THEN 999 ELSE v.patch
        rc    == IF v.rc = None THEN 999 ELSE v.rc
    IN  v.major * 10^9 + v.minor * 10^6 + patch * 10^3 + rc

\* wrong: equality compares the fields, not the ids
VersionEq_by_fields(a, b) == a = b

\* impl PartialEq for Version
VersionEq(a, b) == get_version_id(a) = get_version_id(b)

get_base_version(v) == Version(v.major, v.minor, None, None)

\* asserts that patch is set; callers below only use it on such versions
get_release_version(v) == Version(v.major, v.minor, v.patch, None)

min(v) == Version(v.major, v.minor,
                  IF v.patch = None THEN 0 ELSE v.patch,
                  IF v.rc = None THEN 0 ELSE v.rc)

\* wrong: max fills the absent fields with 0, as min does
max_fill_zero(v) == Version(v.major, v.minor,
                            IF v.patch = None THEN 0 ELSE v.patch,
                            IF v.rc = None THEN 0 ELSE v.rc)

max(v) == Version(v.major, v.minor,
                  IF v.patch = None THEN 999 ELSE v.patch,
                  IF v.rc = None THEN 999 ELSE v.rc)

\* ----------------------------------------------------------- version strings
\* A string is a sequence of characters.  Huge stands for a run of twenty
\* nines: \d+ matches it and no u64 holds it.
Huge == "99999999999999999999"
DigitChars == <<"0", "1", "2", "3", "4", "5", "6", "7", "8", "9">>
IsDigit(c) == c = Huge \/ \E i \in 1..10 : DigitChars[i] = c
DigitVal(c) == (CHOOSE i \in 1..10 : DigitChars[i] = c) - 1

\* \d+
IsNumber(s) == Len(s) > 0 /\ \A i \in 1..Len(s) : IsDigit(s[i])

\* str::parse::<u64>: whether the digits fit, and their value when they do
Fits(s) == \A i \in 1..Len(s) : s[i] # Huge
RECURSIVE parse_u64(_)
parse_u64(s) ==
    IF s = <<>> THEN 0
    ELSE 10 * parse_u64(SubSeq(s, 1, Len(s) - 1)) + DigitVal(s[Len(s)])

\* u64's Display
RECURSIVE to_string(_)
to_string(n) ==
    IF n < 10 THEN <<DigitChars[n + 1]>>
    ELSE to_string(n \div 10) \o <<DigitChars[(n % 10) + 1]>>

\* index of the first c in s, 0 when there is none
IndexOf(s, c) ==
    IF \E i \in 1..Len(s) : s[i] = c
    THEN CHOOSE i \in 1..Len(s) : s[i] = c /\ \A j \in 1..(i - 1) : s[j] # c
    ELSE 0

RECURSIVE SplitDots(_)
SplitDots(s) ==
    IF IndexOf(s, ".") = 0 THEN <<s>>
    ELSE <<SubSeq(s, 1, IndexOf(s, ".") - 1)>>
         \o SplitDots(SubSeq(s, IndexOf(s, ".") + 1, Len(s)))

NoMatch == [matched |-> FALSE, major |-> <<>>, minor |-> <<>>,
            patch |-> <<>>, rc |-> <<>>]

\* The groups of ^v?((\d+)\.(\d+)(?:\.(\d+)(?:-rc(\d+))?)?)$ in s; a group
\* that took no part in the match is empty.  rc_needs_patch is the nesting of
\* the rc group inside the patch group.
Match(s, rc_needs_patch) ==
    LET body == IF s # <<>> /\ s[1] = "v" THEN Tail(s) ELSE s
        dash == IndexOf(body, "-")
        main == IF dash = 0 THEN body ELSE SubSeq(body, 1, dash - 1)
        rest == IF dash = 0 THEN <<>> ELSE SubSeq(body, dash, Len(body))
        parts == SplitDots(main)
        rcnum == SubSeq(rest, 4, Len(rest))
        rc_ok == /\ Len(rest) > 3
                 /\ SubSeq(rest, 1, 3) = <<"-", "r", "c">>
                 /\ IsNumber(rcnum)
    IN  IF /\ Len(parts) \in {2, 3}
           /\ \A i \in 1..Len(parts) : IsNumber(parts[i])
           /\ \/ rest = <<>>
              \/ rc_ok /\ (rc_needs_patch => Len(parts) = 3)
        THEN [matched |-> TRUE, major |-> parts[1], minor |-> parts[2],
              patch |-> IF Len(parts) = 3 THEN parts[3] ELSE <<>>,
              rc |-> IF rest = <<>> THEN <<>> ELSE rcnum]
        ELSE NoMatch

\* wrong: the rc group is not nested in the patch group
captures_rc_anywhere(s) == Match(s, FALSE)

\* re.captures(&value)
captures(s) == Match(s, TRUE)

\* Version::from_str: Ok with a version, Err, or a panic of the unwrap of
\* parse() on a component that does not fit a u64.
from_str(s) ==
    LET m == captures(s)
        opt(g) == IF g = <<>> THEN None ELSE parse_u64(g)
    IN  IF ~m.matched THEN [status |-> "Err", version |-> Version(0, 0, None, None)]
        ELSE IF ~(Fits(m.major) /\ Fits(m.minor) /\ Fits(m.patch) /\ Fits(m.rc))
        THEN [status |-> "panic", version |-> Version(0, 0, None, None)]
        ELSE [status |-> "Ok",
              version |-> Version(parse_u64(m.major), parse_u64(m.minor),
                                  opt(m.patch), opt(m.rc))]

\* Version::get_version_str
get_version_str(v) ==
    LET p  == IF v.patch = None THEN <<>> ELSE <<".">> \o to_string(v.patch)
        rc == IF v.rc = None THEN <<>>
              ELSE <<"-", "r", "c">> \o to_string(v.rc)
    IN  to_string(v.major) \o <<".">> \o to_string(v.minor) \o p \o rc

\* Name formats of the s3gw repository: a template is a sequence of
\* characters and placeholders.
tag_format == <<"v", "{{major}}", ".", "{{minor}}", ".", "{{patch}}">>
branch_format == <<"s", "3", "g", "w", "-", "v", "{{major}}", ".", "{{minor}}">>

\* The data to_str_fmt hands to the template: absent fields are not inserted.
TemplateData(v) ==
    [k \in {"{{major}}", "{{minor}}"}
           \cup (IF v.patch = None THEN {} ELSE {"{{patch}}"})
           \cup (IF v.rc = None THEN {} ELSE {"{{rc}}"}) |->
        CASE k = "{{major}}" -> v.major
          [] k = "{{minor}}" -> v.minor
          [] k = "{{patch}}" -> v.patch
          [] k = "{{rc}}" -> v.rc]
Placeholders == {"{{major}}", "{{minor}}", "{{patch}}", "{{rc}}"}

\* The text a template renders to: a placeholder that has a value renders
\* as the number, one that has none as nothing.
RECURSIVE Rendered(_, _, _)
Rendered(fmt, data, i) ==
    IF i > Len(fmt) THEN <<>>
    ELSE (IF fmt[i] \in Placeholders
          THEN (IF fmt[i] \in DOMAIN data THEN to_string(data[fmt[i]])
                ELSE <<>>)
          ELSE <<fmt[i]>>) \o Rendered(fmt, data, i + 1)

\* Handlebars::render of a template registered on Handlebars::new(): strict
\* mode is off, and a placeholder without a value renders as nothing.
render(fmt, data) == [status |-> "Ok", name |-> Rendered(fmt, data, 1)]

\* Version::to_str_fmt
to_str_fmt(v, fmt) == render(fmt, TemplateData(v))

\* Repository::version_to_str: the rc suffix is appended by the caller, and
\* only a tag may carry one (assert!(is_tag)).
version_to_str(ver, is_tag) ==
    LET ver_base_str == to_str_fmt(ver, IF is_tag THEN tag_format
                                        ELSE branch_format)
    IN  IF ver_base_str.status # "Ok" THEN ver_base_str
        ELSE IF ver.rc # None
        THEN IF ~is_tag THEN [status |-> "panic", name |-> <<>>]
             ELSE [status |-> "Ok",
                   name |-> ver_base_str.name \o <<"-", "r", "c">>
                            \o to_string(ver.rc)]
        ELSE ver_base_str

\* ------------------------------------------------------------ the chart file
\* A file is a sequence of lines; a line is its text and its terminator
\* ("" on a last line without one).  The text is "version: " and a value, or
\* any other text.
Line(kind, value, eol) == [kind |-> kind, value |-> value, eol |-> eol]
Absent == <<Line("absent", <<>>, "")>>

\* One round of the loop: BufRead::lines drops the terminator (\n or \r\n),
\* a line matching ^version:[ ]+(.*)$ becomes "version: <version>", and the
\* line is written with \n.
written_line(line, version) ==
    IF line.kind = "version"
    THEN Line("version", get_version_str(version), "\n")
    ELSE Line(line.kind, line.value, "\n")

\* chart_update_version on the file `file`, where the step `fault` (if any)
\* fails: the outcome, the chart file and whether the .tmp file is left.
chart_update_version(file, version, fault) ==
    LET bad == {i \in 1..Len(file) :
                   file[i].kind = "version" /\ from_str(file[i].value).status # "Ok"}
        first_bad == CHOOSE i \in bad : \A j \in bad : i <= j
        out(status, f, tmp) == [status |-> status, file |-> f, tmp |-> tmp]
    IN  IF fault = "open" THEN out("UnknownError", file, FALSE)
        ELSE IF fault = "create" THEN out("UnknownError", file, FALSE)
        ELSE IF fault = "read" THEN out("ParsingError", file, TRUE)
        ELSE IF bad # {}
        THEN out(IF from_str(file[first_bad].value).status = "panic"
                 THEN "panic" ELSE "ParsingError", file, TRUE)
        ELSE IF fault = "write" THEN out("UnknownError", file, TRUE)
        ELSE IF fault = "remove" THEN out("UnknownError", file, TRUE)
        ELSE IF fault = "rename" THEN out("UnknownError", Absent, TRUE)
        ELSE out("Ok", [i \in 1..Len(file) |-> written_line(file[i], version)],
                 FALSE)

\* ------------------------------------------------------------ repositories
\* Repos::as_vec
Repos == <<"s3gw", "ui", "charts", "ceph">>
RepoNames == {Repos[i] : i \in 1..Len(Repos)}

\* wrong: ceph is left out of the dependent repositories
get_submodules_no_ceph == <<"ui", "charts">>

\* get_submodules: the dependent repositories, in tagging order
get_submodules == <<"ui", "charts", "ceph">>
SubmoduleNames == {get_submodules[i] : i \in 1..Len(get_submodules)}

\* The release the model works on, and an older one on another branch
R0 == Version(1, 0, 0, None)
BaseR0 == get_base_version(R0)
OldRelease == Version(0, 9, 0, None)

\* Version arguments a command line can carry: the release version, and the
\* two other shapes Version::from_str accepts (a base version, a candidate).
CmdVersions == {R0, Version(1, 0, None, None), Version(1, 0, 0, 1)}

NoVersion == Version(0, 0, None, None)
NoState == [release_version |-> NoVersion]

\* ----------------------------------------------------------------- CI status
\* What get_release_status can answer: an error, no run, or the latest run.
\* GitHub reports a conclusion only for a completed run.
Answer(kind, status, conclusion) ==
    [kind |-> kind, status |-> status, conclusion |-> conclusion]
NoAnswer == Answer("unqueried", "null", "null")
GitHubRuns ==
    { Answer("run", "queued", "null"),
      Answer("run", "in_progress", "null"),
      Answer("run", "requested", "null"),
      Answer("run", "completed", "success"),
      Answer("run", "completed", "failure") }
Answers == {Answer("err", "null", "null"), Answer("none", "null", "null")}
               \cup GitHubRuns

\* ReleaseWorkflowResult::from_github_result
from_github_result(res) ==
    [status  |-> CASE res.status = "queued"      -> "QUEUED"
                   [] res.status = "completed"   -> "COMPLETED"
                   [] res.status = "in_progress" -> "INPROGRESS"
                   [] OTHER                      -> "UNKNOWN",
     success |-> res.conclusion = "success"]

\* wrong: a queued or running workflow does not count as waiting
is_waiting_never(s) == FALSE

\* ReleaseWorkflowResult::is_waiting
is_waiting(s) == s.status \in {"INPROGRESS", "QUEUED"}

\* ReleaseWorkflowResult::is_failed
is_failed(s) == IF is_waiting(s) THEN FALSE ELSE s.success

VARIABLES
    localTags,      \* repo -> versions tagged in the local clone
    remoteTags,     \* repo -> versions tagged on the remote
    localBranches,  \* repo -> base versions with a local release branch
    remoteBranches, \* repo -> base versions with a release branch on the remote
    state,          \* contents of release.json (NoState when absent)
    chartVersion,   \* version committed to Chart.yaml on the charts release branch
    finalCharts,    \* versions whose chart was pushed to the final branch
    pullRequests,   \* versions for which the finishing pull request was opened
    pc,             \* position of the running command ("idle" between commands)
    cmd,            \* the running (or last) command and its arguments
    next_ver,       \* perform_release's next_ver
    idx,            \* loop index over repositories
    ci,             \* GitHub answer obtained by the running command
    log,            \* repository operations done by the running (or last) command
    result,         \* outcome of the last command
    failures,       \* failures the environment has injected so far
    va, vb,         \* two versions handed to the Version functions
    ids,            \* what the Version functions returned for va and vb
    lim,            \* min() and max() of va, and whether va == max()
    ranged,         \* versions the range query returned for the tags va, vb
    text,           \* a string handed to Version::from_str
    parsed,         \* what from_str returned, and the version as a string
    named,          \* the ref name version_to_str made of va
    chart,          \* the chart file before chart_update_version
    updated,        \* the outcome of chart_update_version and the file after
    refs,           \* the refs of a repository: kind and captured group
    scan,           \* get_releases: where it is, and the refs not yet seen
    tree,           \* get_releases: the version tree built so far
    index,          \* what get_versions or get_release_branches returned
    runs,           \* the workflow runs GitHub lists for a tag, in its order
    latest          \* what github_get_latest_release_workflow returned

vars == <<localTags, remoteTags, localBranches, remoteBranches, state,
          chartVersion, finalCharts, pullRequests,
          pc, cmd, next_ver, idx, ci, log, result, failures, va, vb, ids, lim, ranged,
          text, parsed, named, chart, updated,
          refs, scan, tree, index, runs, latest>>

gitVars == <<localTags, remoteTags, localBranches, remoteBranches>>
finishVars == <<chartVersion, finalCharts, pullRequests>>
versionVars == <<va, vb, ids, lim, ranged, text, parsed, named,
                 chart, updated, refs, scan, tree, index, runs, latest>>

\* ---------------------------------------------------------------- ref index
\* Repository::get_versions: map version id -> Version over the tag refs.
\* Tags are listed from the local clone only (get_refs_from_remote lists
\* heads, get_refs_from_local lists tags and heads).
get_versions(tags) ==
    [id \in {get_version_id(v) : v \in tags} |->
        CHOOSE v \in tags : get_version_id(v) = id]

\* Repository::get_release_branches: heads of the remote and of the clone
get_release_branches(repo) ==
    {get_version_id(b) : b \in localBranches[repo] \cup remoteBranches[repo]}

\* wrong: the range is open at the top, so the final release is left out
get_release_versions_from_tags_open(tags, relver) ==
    LET min_id == get_version_id(min(relver))
        max_id == get_version_id(max(relver))
        version_tree == get_versions(tags)
    IN  [id \in {k \in DOMAIN version_tree : min_id <= k /\ k < max_id} |->
            version_tree[id]]

\* get_release_versions_from_repo, on a repository's tag set
get_release_versions_from_tags(tags, relver) ==
    LET min_id == get_version_id(min(relver))
        max_id == get_version_id(max(relver))
        version_tree == get_versions(tags)
    IN  [id \in {k \in DOMAIN version_tree : min_id <= k /\ k <= max_id} |->
            version_tree[id]]

get_release_versions_from_repo(repo, relver) ==
    get_release_versions_from_tags(localTags[repo], relver)

\* wrong: the versions of the ui repository decide
get_release_versions_of_ui(relver) ==
    get_release_versions_from_repo("ui", relver)

\* get_release_versions: the superproject's versions decide
get_release_versions(relver) == get_release_versions_from_repo("s3gw", relver)

\* BTreeMap::last_key_value, on a non-empty map
last_key_value(m) ==
    m[CHOOSE k \in DOMAIN m : \A j \in DOMAIN m : j <= k]

\* ------------------------------------------------------------- initial state
\* Histories the remotes can have when the workspace is first opened.
AllRepos(x) == [r \in RepoNames |-> x]
Histories ==
    { \* no prior history
      [tags |-> AllRepos({}), branches |-> AllRepos({})],
      \* an older release on its own branch, nothing of 1.0
      [tags |-> AllRepos({[OldRelease EXCEPT !.rc = 1], OldRelease}),
       branches |-> AllRepos({get_base_version(OldRelease)})],
      \* release branches cut, nothing tagged
      [tags |-> AllRepos({}), branches |-> AllRepos({BaseR0})],
      \* only the superproject has the release branch
      [tags |-> AllRepos({}),
       branches |-> [AllRepos({}) EXCEPT !["s3gw"] = {BaseR0}]],
      \* a dependent repository was tagged, the superproject was not
      [tags |-> [AllRepos({}) EXCEPT !["ui"] = {Version(1, 0, 0, 1)}],
       branches |-> AllRepos({BaseR0})],
      \* 1.0.0 started elsewhere: rc1 everywhere
      [tags |-> AllRepos({Version(1, 0, 0, 1)}), branches |-> AllRepos({BaseR0})],
      \* 1.0.0 finished elsewhere
      [tags |-> AllRepos({Version(1, 0, 0, 1), R0}),
       branches |-> AllRepos({BaseR0})] }

\* No Version function has been called.
NoIds == [a |-> None, b |-> None, last |-> NoVersion]

\* Neither min() nor max() has been called.
NoLim == [min |-> NoVersion, max |-> NoVersion, eq_max |-> FALSE]

\* The range query has not been called.
NoAvail == [called |-> FALSE, relver |-> NoVersion, versions |-> {}]

\* Neither from_str nor get_version_str has been called.
NoParse == [of |-> "none", status |-> "none", version |-> NoVersion,
            str |-> <<>>]

\* version_to_str has not been called.
NoName == [status |-> "none", is_tag |-> FALSE, name |-> <<>>]

\* chart_update_version has not been called.
NoUpdate == [status |-> "none", file |-> <<>>, tmp |-> FALSE]

\* No ref scan has been started.
NoScan == [phase |-> "idle", todo |-> {}]
NoIndex == [status |-> "none", versions |-> {}]

\* github_get_latest_release_workflow has not been called.
NoLatest == [kind |-> "unqueried", status |-> "UNKNOWN", success |-> FALSE,
             created_at |-> 0]

\* The workspace as first opened on the remotes' history h.
InitWorkspace(h) ==
        /\ remoteTags = h.tags
        /\ localTags = h.tags          \* a fresh clone fetches all tags
        /\ remoteBranches = h.branches
        /\ localBranches = [r \in RepoNames |-> {}]
        /\ state = NoState
        /\ chartVersion = NoVersion
        /\ finalCharts = {}
        /\ pullRequests = {}
        /\ pc = "idle"
        /\ cmd = [kind |-> "none", version |-> NoVersion, force |-> FALSE,
                  notes |-> "absent"]
        /\ next_ver = NoVersion
        /\ idx = 0
        /\ ci = NoAnswer
        /\ log = <<>>
        /\ result = "none"
        /\ failures = 0

Init ==
    \E h \in Histories :
        /\ InitWorkspace(h)
        /\ va = NoVersion
        /\ vb = NoVersion
        /\ ids = NoIds
        /\ lim = NoLim
        /\ ranged = NoAvail
        /\ text = <<>>
        /\ parsed = NoParse
        /\ named = NoName
        /\ chart = <<>>
        /\ updated = NoUpdate
        /\ refs = {}
        /\ scan = NoScan
        /\ tree = <<>>
        /\ index = NoIndex
        /\ runs = <<>>
        /\ latest = NoLatest

\* ------------------------------------------------------------------ helpers
Ev(op, repo) == <<op, repo>>

\* the command returns `res` to the command layer
Return(res) == pc' = "idle" /\ result' = res /\ UNCHANGED failures

\* a step fails because of the environment, and the command returns `res`
Fail(res) ==
    /\ failures < MaxFailures
    /\ failures' = failures + 1
    /\ pc' = "idle"
    /\ result' = res

\* the command layer hands over to the command's first step `p`
Begin(p) == pc' = p /\ result' = "running" /\ UNCHANGED failures

\* Repository::sync / Repository::update: fetch the remote's tags
Fetched == [r \in RepoNames |-> localTags[r] \cup remoteTags[r]]

\* handle_cmds: Workspace::open synchronizes every repository, then
\* Release::open reads release.json.  The model takes a command from the
\* point where the workspace is open.
BeginCmd(kind, version, force, notes) ==
    /\ pc = "idle"
    /\ cmd' = [kind |-> kind, version |-> version, force |-> force,
               notes |-> notes]
    /\ log' = <<>>
    /\ ci' = NoAnswer
    /\ next_ver' = NoVersion
    /\ idx' = 0
    /\ UNCHANGED versionVars


\* --------------------------------------------------------- command: Start
\* wrong: Start is dispatched whether or not a release state is present
HandleCmdStart_no_state_check ==
    \E v \in CmdVersions :
        /\ BeginCmd("start", v, FALSE, "given")
        /\ UNCHANGED <<remoteTags, localBranches, remoteBranches, state>>
        /\ UNCHANGED finishVars
        /\ localTags' = Fetched
        /\ Begin("start")

\* handle_cmds, Cmds::Start: refuse when a release state is present
HandleCmdStart ==
    \E v \in CmdVersions :
        /\ BeginCmd("start", v, FALSE, "given")
        /\ UNCHANGED <<remoteTags, localBranches, remoteBranches, state>>
        /\ UNCHANGED finishVars
        /\ localTags' = Fetched
        /\ IF state # NoState
           THEN Return("StateFound")
           ELSE Begin("start")

\* start(): the version is already in the superproject's range
StartAvail(tags, version) == get_release_versions_from_tags(tags["s3gw"], version)
\* wrong: an exact match is not told apart from a started release
StartReleased_never(tags, version) == FALSE

StartReleased(tags, version) ==
    \E id \in DOMAIN StartAvail(tags, version) :
        VersionEq(StartAvail(tags, version)[id], version)

\* wrong: the dependents-ahead check looks at the superproject only
started_repos_s3gw_only(tags, version) ==
    SelectSeq(Repos, LAMBDA r :
        r = "s3gw" /\ DOMAIN get_release_versions_from_tags(tags[r], version) # {})

\* start(): repositories that already have versions in range
started_repos(tags, version) ==
    SelectSeq(Repos, LAMBDA r :
        DOMAIN get_release_versions_from_tags(tags[r], version) # {})

\* wrong: the release state is written before the version is checked
start_writes_state_first ==
    /\ pc = "start"
    /\ UNCHANGED versionVars
    /\ UNCHANGED <<remoteTags, localBranches, remoteBranches>>
    /\ UNCHANGED finishVars
    /\ UNCHANGED <<cmd, next_ver, idx, ci>>
    /\ \/ Fail("SyncError") /\ UNCHANGED <<localTags, state, log>>
       \/ /\ localTags' = Fetched
          /\ state' = [release_version |-> cmd.version]
          /\ log' = Append(log, Ev("write_state", "ws"))
          /\ IF StartReleased(Fetched, cmd.version)
             THEN Return("ReleaseExistsError")
             ELSE IF DOMAIN StartAvail(Fetched, cmd.version) # {}
             THEN Return("ReleaseStartedError")
             ELSE IF Len(started_repos(Fetched, cmd.version)) > 0
             THEN Return("CorruptedError")
             ELSE pc' = "maybe_cut_branches" /\ UNCHANGED <<result, failures>>

\* start(), up to the dependents-ahead check
start ==
    /\ pc = "start"
    /\ UNCHANGED versionVars
    /\ UNCHANGED <<remoteTags, localBranches, remoteBranches, state>>
    /\ UNCHANGED finishVars
    /\ UNCHANGED <<cmd, next_ver, idx, ci, log>>
    /\ \/ Fail("SyncError") /\ UNCHANGED localTags
       \/ /\ localTags' = Fetched
          /\ IF StartReleased(Fetched, cmd.version)
             THEN Return("ReleaseExistsError")
             ELSE IF DOMAIN StartAvail(Fetched, cmd.version) # {}
             THEN Return("ReleaseStartedError")
             ELSE IF Len(started_repos(Fetched, cmd.version)) > 0
             THEN Return("CorruptedError")
             ELSE pc' = "maybe_cut_branches" /\ UNCHANGED <<result, failures>>

\* maybe_cut_branches: repositories lacking the release branch
repos_to_cut(version) ==
    SelectSeq(Repos, LAMBDA r :
        get_version_id(get_base_version(version)) \notin get_release_branches(r))

maybe_cut_branches ==
    /\ pc = "maybe_cut_branches"
    /\ UNCHANGED versionVars
    /\ UNCHANGED gitVars
    /\ UNCHANGED finishVars
    /\ UNCHANGED <<state, cmd, next_ver, ci, log>>
    /\ IF Len(repos_to_cut(cmd.version)) = 0
       THEN pc' = "write_state" /\ UNCHANGED <<result, failures, idx>>
       ELSE IF Len(repos_to_cut(cmd.version)) # Len(Repos)
       THEN Return("CorruptedError") /\ UNCHANGED idx
       ELSE \/ pc' = "cut_branches_for" /\ idx' = 1 /\ UNCHANGED <<result, failures>>
            \/ Fail("AbortedError") /\ UNCHANGED idx
            \/ Fail("UnknownError") /\ UNCHANGED idx

\* cut_branches_for: branch off the default branch, one repository at a time
cut_branches_for ==
    /\ pc = "cut_branches_for"
    /\ UNCHANGED versionVars
    /\ UNCHANGED <<localTags, remoteTags, remoteBranches, state>>
    /\ UNCHANGED finishVars
    /\ UNCHANGED <<cmd, next_ver, ci>>
    /\ LET repo == repos_to_cut(cmd.version)[1]
       IN  \/ /\ localBranches' = [localBranches EXCEPT
                     ![repo] = @ \cup {get_base_version(cmd.version)}]
              /\ log' = Append(log, Ev("cut", repo))
              /\ idx' = idx + 1
              /\ pc' = IF Len(repos_to_cut(cmd.version)) = 1
                       THEN "write_state" ELSE "cut_branches_for"
              /\ UNCHANGED <<result, failures>>
           \/ Fail("UnknownError") /\ UNCHANGED <<localBranches, log, idx>>

\* start(): release.state = Some(..); release.write()
write_state ==
    /\ pc = "write_state"
    /\ UNCHANGED versionVars
    /\ UNCHANGED gitVars
    /\ UNCHANGED finishVars
    /\ UNCHANGED <<cmd, next_ver, idx, ci>>
    /\ \/ /\ state' = [release_version |-> cmd.version]
          /\ log' = Append(log, Ev("write_state", "ws"))
          /\ pc' = "sync"
          /\ UNCHANGED <<result, failures>>
       \/ Fail("UnknownError") /\ UNCHANGED <<state, log>>

\* release::sync::sync: update every repository and check out its release
\* branch.  Start and Finish report SyncError, Continue UnknownError.
CanCheckout(version) ==
    \A r \in RepoNames :
        get_version_id(get_base_version(version)) \in get_release_branches(r)

sync ==
    /\ pc = "sync"
    /\ UNCHANGED versionVars
    /\ UNCHANGED <<remoteTags, remoteBranches, state>>
    /\ UNCHANGED finishVars
    /\ UNCHANGED <<cmd, next_ver, idx, ci, log>>
    /\ \/ /\ CanCheckout(cmd.version)
          /\ localTags' = Fetched
          /\ localBranches' = [r \in RepoNames |->
                 localBranches[r] \cup {get_base_version(cmd.version)}]
          /\ pc' = CASE cmd.kind = "start"    -> "start_release_candidate"
                     [] cmd.kind = "continue" -> "get_release_status"
                     [] OTHER                 -> "update_charts"
          /\ UNCHANGED <<result, failures>>
       \/ /\ ~CanCheckout(cmd.version)
          /\ Return(IF cmd.kind = "continue" THEN "UnknownError" ELSE "SyncError")
          /\ UNCHANGED <<localTags, localBranches>>
       \/ /\ Fail(IF cmd.kind = "continue" THEN "UnknownError" ELSE "SyncError")
          /\ UNCHANGED <<localTags, localBranches>>

\* wrong: candidates are numbered from 0
next_rc_from_zero(avail_versions) ==
    IF DOMAIN avail_versions = {} THEN 0
    ELSE IF last_key_value(avail_versions).rc # None
         THEN last_key_value(avail_versions).rc + 1
         ELSE None

\* wrong: the next candidate number repeats the highest existing one
next_rc_same(avail_versions) ==
    IF DOMAIN avail_versions = {} THEN 1
    ELSE last_key_value(avail_versions).rc

\* start_release_candidate: which rc comes next (None: highest is not an rc)
next_rc(avail_versions) ==
    IF DOMAIN avail_versions = {} THEN 1
    ELSE IF last_key_value(avail_versions).rc # None
         THEN last_key_value(avail_versions).rc + 1
         ELSE None

start_release_candidate ==
    /\ pc = "start_release_candidate"
    /\ UNCHANGED versionVars
    /\ UNCHANGED gitVars
    /\ UNCHANGED finishVars
    /\ UNCHANGED <<state, cmd, ci, log>>
    /\ IF next_rc(get_release_versions(cmd.version)) = None
       THEN Return("UnknownError") /\ UNCHANGED <<next_ver, idx>>
       ELSE /\ next_ver' = [cmd.version EXCEPT
                               !.rc = next_rc(get_release_versions(cmd.version))]
            /\ pc' = "tag_release_branch"
            /\ idx' = 1
            /\ UNCHANGED <<result, failures>>

\* ------------------------------------------------------- perform_release
\* relver is cmd.version; next_ver is the version to tag.

\* git tag refuses a tag name that exists and needs the branch to resolve
CanTag(repo, relver, tagver) ==
    /\ tagver \notin localTags[repo]
    /\ get_base_version(relver) \in localBranches[repo]

\* wrong: each dependent repository is pushed as soon as it is tagged
tag_release_branch_and_push ==
    /\ pc = "tag_release_branch"
    /\ UNCHANGED versionVars
    /\ UNCHANGED <<localBranches, remoteBranches, state>>
    /\ UNCHANGED finishVars
    /\ UNCHANGED <<cmd, next_ver, ci>>
    /\ LET repo == get_submodules[idx]
       IN  IF cmd.version.patch = None
           THEN Return("panic") /\ UNCHANGED <<localTags, remoteTags, log, idx>>
           ELSE \/ /\ CanTag(repo, cmd.version, next_ver)
                   /\ localTags' = [localTags EXCEPT ![repo] = @ \cup {next_ver}]
                   /\ remoteTags' = [remoteTags EXCEPT ![repo] = @ \cup {next_ver}]
                   /\ log' = log \o <<Ev("tag", repo), Ev("push_tag", repo)>>
                   /\ IF idx < Len(get_submodules)
                      THEN idx' = idx + 1 /\ UNCHANGED pc
                      ELSE idx' = 1 /\ pc' = "push_release_branch"
                   /\ UNCHANGED <<result, failures>>
                \/ /\ ~CanTag(repo, cmd.version, next_ver)
                   /\ Return("TaggingError")
                   /\ UNCHANGED <<localTags, remoteTags, log, idx>>
                \/ Fail("TaggingError") /\ UNCHANGED <<localTags, remoteTags, log, idx>>

\* perform_release: tag the release branch of each dependent repository
tag_release_branch ==
    /\ pc = "tag_release_branch"
    /\ UNCHANGED versionVars
    /\ UNCHANGED <<remoteTags, localBranches, remoteBranches, state>>
    /\ UNCHANGED finishVars
    /\ UNCHANGED <<cmd, next_ver, ci>>
    /\ LET repo == get_submodules[idx]
       IN  IF cmd.version.patch = None
           THEN Return("panic") /\ UNCHANGED <<localTags, log, idx>>
           ELSE \/ /\ CanTag(repo, cmd.version, next_ver)
                   /\ localTags' = [localTags EXCEPT ![repo] = @ \cup {next_ver}]
                   /\ log' = Append(log, Ev("tag", repo))
                   /\ IF idx < Len(get_submodules)
                      THEN idx' = idx + 1 /\ UNCHANGED pc
                      ELSE idx' = 1 /\ pc' = "push_release_branch"
                   /\ UNCHANGED <<result, failures>>
                \/ /\ ~CanTag(repo, cmd.version, next_ver)
                   /\ Return("TaggingError")
                   /\ UNCHANGED <<localTags, log, idx>>
                \/ Fail("TaggingError") /\ UNCHANGED <<localTags, log, idx>>

\* perform_release: push the release branch of a dependent repository;
\* version_to_str asserts that a branch name carries no rc
push_release_branch ==
    /\ pc = "push_release_branch"
    /\ UNCHANGED versionVars
    /\ UNCHANGED <<localTags, remoteTags, localBranches, state>>
    /\ UNCHANGED finishVars
    /\ UNCHANGED <<cmd, next_ver, ci, idx>>
    /\ LET repo == get_submodules[idx]
       IN  IF cmd.version.rc # None
           THEN Return("panic") /\ UNCHANGED <<remoteBranches, log>>
           ELSE \/ /\ remoteBranches' = [remoteBranches EXCEPT
                          ![repo] = @ \cup {get_base_version(cmd.version)}]
                   /\ log' = Append(log, Ev("push_branch", repo))
                   /\ pc' = "push_release_tag"
                   /\ UNCHANGED <<result, failures>>
                \/ Fail("PushingError") /\ UNCHANGED <<remoteBranches, log>>

\* perform_release: push the new tag of a dependent repository
push_release_tag ==
    /\ pc = "push_release_tag"
    /\ UNCHANGED versionVars
    /\ UNCHANGED <<localTags, localBranches, remoteBranches, state>>
    /\ UNCHANGED finishVars
    /\ UNCHANGED <<cmd, next_ver, ci>>
    /\ LET repo == get_submodules[idx]
       IN  \/ /\ remoteTags' = [remoteTags EXCEPT ![repo] = @ \cup {next_ver}]
              /\ log' = Append(log, Ev("push_tag", repo))
              /\ IF idx < Len(get_submodules)
                 THEN idx' = idx + 1 /\ pc' = "push_release_branch"
                 ELSE idx' = 1 /\ pc' = "update_submodules"
              /\ UNCHANGED <<result, failures>>
           \/ Fail("PushingError") /\ UNCHANGED <<remoteTags, log, idx>>

\* update_submodules: pin each submodule of the superproject to the new tag.
\* Start always carries release notes, Finish never; for Continue they are
\* optional, and whether they were given shows here, where perform_release
\* first looks at them.
update_submodules ==
    /\ pc = "update_submodules"
    /\ UNCHANGED versionVars
    /\ UNCHANGED gitVars
    /\ UNCHANGED finishVars
    /\ UNCHANGED <<state, cmd, next_ver, ci>>
    /\ \/ /\ log' = Append(log, Ev("pin", get_submodules[idx]))
          /\ IF idx < Len(get_submodules)
             THEN idx' = idx + 1 /\ UNCHANGED pc
             ELSE /\ idx' = 0
                  /\ \/ cmd.notes \in {"given", "optional"} /\ pc' = "copy_notes"
                     \/ cmd.notes \in {"absent", "optional"} /\ pc' = "stage_paths"
          /\ UNCHANGED <<result, failures>>
       \/ Fail("SubmoduleError") /\ UNCHANGED <<log, idx>>

\* perform_release: copy the release notes and refresh the 'latest' symlink
copy_notes ==
    /\ pc = "copy_notes"
    /\ UNCHANGED versionVars
    /\ UNCHANGED gitVars
    /\ UNCHANGED finishVars
    /\ UNCHANGED <<state, cmd, next_ver, ci, idx>>
    /\ \/ /\ log' = Append(log, Ev("notes", "s3gw"))
          /\ pc' = "stage_paths"
          /\ UNCHANGED <<result, failures>>
       \/ Fail("UnknownError") /\ UNCHANGED log

\* perform_release: stage the changed paths of the superproject
stage_paths ==
    /\ pc = "stage_paths"
    /\ UNCHANGED versionVars
    /\ UNCHANGED gitVars
    /\ UNCHANGED finishVars
    /\ UNCHANGED <<state, cmd, next_ver, ci, idx>>
    /\ \/ /\ log' = Append(log, Ev("stage", "s3gw"))
          /\ pc' = "commit_release"
          /\ UNCHANGED <<result, failures>>
       \/ Fail("StagingError") /\ UNCHANGED log

\* Repository::commit_release: commit, then tag the superproject; a failure
\* to tag is logged and not returned
commit_release ==
    /\ pc = "commit_release"
    /\ UNCHANGED versionVars
    /\ UNCHANGED <<remoteTags, localBranches, remoteBranches, state>>
    /\ UNCHANGED finishVars
    /\ UNCHANGED <<cmd, next_ver, ci, idx>>
    /\ \/ Fail("CommittingError") /\ UNCHANGED <<localTags, log>>
       \/ /\ CanTag("s3gw", cmd.version, next_ver)
          /\ localTags' = [localTags EXCEPT !["s3gw"] = @ \cup {next_ver}]
          /\ log' = log \o <<Ev("commit", "s3gw"), Ev("tag", "s3gw")>>
          /\ pc' = "push_s3gw_branch"
          /\ UNCHANGED <<result, failures>>
       \/ /\ log' = Append(log, Ev("commit", "s3gw"))
          /\ pc' = "push_s3gw_branch"
          /\ IF CanTag("s3gw", cmd.version, next_ver)
             THEN failures < MaxFailures /\ failures' = failures + 1
             ELSE UNCHANGED failures
          /\ UNCHANGED <<localTags, result>>

\* perform_release: push the superproject's release branch
push_s3gw_branch ==
    /\ pc = "push_s3gw_branch"
    /\ UNCHANGED versionVars
    /\ UNCHANGED <<localTags, remoteTags, localBranches, state>>
    /\ UNCHANGED finishVars
    /\ UNCHANGED <<cmd, next_ver, ci, idx>>
    /\ \/ /\ remoteBranches' = [remoteBranches EXCEPT
                 !["s3gw"] = @ \cup {get_base_version(cmd.version)}]
          /\ log' = Append(log, Ev("push_branch", "s3gw"))
          /\ pc' = "push_s3gw_tag"
          /\ UNCHANGED <<result, failures>>
       \/ Fail("PushingError") /\ UNCHANGED <<remoteBranches, log>>

\* perform_release: push the superproject's tag, then back in the caller:
\* start() checks that the candidate is rc1, continue_release returns,
\* finish() goes on to publish the chart
push_s3gw_tag ==
    /\ pc = "push_s3gw_tag"
    /\ UNCHANGED versionVars
    /\ UNCHANGED <<localTags, localBranches, remoteBranches, state>>
    /\ UNCHANGED finishVars
    /\ UNCHANGED <<cmd, next_ver, ci, idx>>
    /\ \/ /\ next_ver \in localTags["s3gw"]
          /\ remoteTags' = [remoteTags EXCEPT !["s3gw"] = @ \cup {next_ver}]
          /\ log' = Append(log, Ev("push_tag", "s3gw"))
          /\ CASE cmd.kind = "start" ->
                    Return(IF next_ver.rc # 1 THEN "CorruptedError" ELSE "Ok")
               [] cmd.kind = "continue" -> Return("Ok")
               [] OTHER -> pc' = "finalize_charts_release" /\ UNCHANGED <<result, failures>>
       \/ /\ next_ver \notin localTags["s3gw"]
          /\ Return("PushingError")
          /\ UNCHANGED <<remoteTags, log>>
       \/ Fail("PushingError") /\ UNCHANGED <<remoteTags, log>>

\* ------------------------------------------------------ command: Continue
\* check_version_against_state: the version comes from release.json when it
\* exists (a version argument is then refused), else from the command line.
\* NoVersion stands for "no version argument".
check_version_against_state(st, version) ==
    IF st # NoState /\ version # NoVersion THEN "StateFoundError"
    ELSE IF st = NoState /\ version = NoVersion THEN "VersionNotProvidedError"
    ELSE "Ok"

ResolvedVersion(st, version) ==
    IF st = NoState THEN version ELSE st.release_version

\* Keeps candidate numbers within MaxRc.
WithinMaxRc(relver) ==
    \A v \in localTags["s3gw"] \cup remoteTags["s3gw"] :
        get_release_version(v) = get_release_version(relver) => v.rc < MaxRc

\* handle_cmds, Cmds::Continue
HandleCmdContinue ==
    \E v \in CmdVersions \cup {NoVersion}, force \in BOOLEAN :
        /\ WithinMaxRc(ResolvedVersion(state, v))
        /\ BeginCmd("continue", ResolvedVersion(state, v), force, "optional")
        /\ UNCHANGED <<remoteTags, localBranches, remoteBranches, state>>
        /\ UNCHANGED finishVars
        /\ localTags' = Fetched
        /\ IF check_version_against_state(state, v) # "Ok"
           THEN Return(check_version_against_state(state, v))
           ELSE Begin("continue_release")

\* wrong: the existence checks are skipped
release_preconditions_none(release_versions, version) == "Ok"

\* wrong: force skips the existence checks as well
release_preconditions_unless_forced(release_versions, version) ==
    IF cmd.force THEN "Ok"
    ELSE IF get_version_id(version) \in DOMAIN release_versions
    THEN "ReleaseExistsError"
    ELSE IF DOMAIN release_versions = {} THEN "NotStartedError"
    ELSE "Ok"

\* The checks that open continue_release, finish and check_can_release
release_preconditions(release_versions, version) ==
    IF get_version_id(version) \in DOMAIN release_versions
    THEN "ReleaseExistsError"
    ELSE IF DOMAIN release_versions = {} THEN "NotStartedError"
    ELSE "Ok"

\* continue_release, up to the repository synchronization
continue_release ==
    /\ pc = "continue_release"
    /\ UNCHANGED versionVars
    /\ UNCHANGED gitVars
    /\ UNCHANGED finishVars
    /\ UNCHANGED <<state, cmd, next_ver, idx, ci, log>>
    /\ IF release_preconditions(get_release_versions(cmd.version), cmd.version) # "Ok"
       THEN Return(release_preconditions(get_release_versions(cmd.version),
                                         cmd.version))
       ELSE pc' = "sync" /\ UNCHANGED <<result, failures>>

\* wrong: force is ignored, a blocked build always blocks
continue_gate_no_force(answer, force) ==
    IF answer.kind = "err" THEN "UnknownError"
    ELSE IF answer.kind = "none" THEN "UnknownError"
    ELSE IF ~from_github_result(answer).success THEN "UnknownError"
    ELSE "Ok"

\* continue_release: the build status of the previous candidate
continue_gate(answer, force) ==
    IF answer.kind = "err" THEN "UnknownError"
    ELSE IF answer.kind = "none"
         THEN IF force THEN "Ok" ELSE "UnknownError"
    ELSE IF ~from_github_result(answer).success
         THEN IF force THEN "Ok" ELSE "UnknownError"
    ELSE "Ok"

get_release_status ==
    /\ pc = "get_release_status"
    /\ UNCHANGED versionVars
    /\ UNCHANGED gitVars
    /\ UNCHANGED finishVars
    /\ UNCHANGED <<state, cmd, next_ver, idx, log>>
    /\ \E answer \in Answers :
        /\ ci' = answer
        /\ IF continue_gate(answer, cmd.force) # "Ok"
           THEN Return(continue_gate(answer, cmd.force))
           ELSE pc' = "start_release_candidate" /\ UNCHANGED <<result, failures>>

\* -------------------------------------------------------- command: Finish
\* handle_cmds, Cmds::Finish
HandleCmdFinish ==
    \E v \in CmdVersions \cup {NoVersion}, force \in BOOLEAN :
        /\ BeginCmd("finish", ResolvedVersion(state, v), force, "absent")
        /\ UNCHANGED <<remoteTags, localBranches, remoteBranches, state>>
        /\ UNCHANGED finishVars
        /\ localTags' = Fetched
        /\ IF check_version_against_state(state, v) # "Ok"
           THEN Return(check_version_against_state(state, v))
           ELSE Begin("check_can_release")

\* check_can_release: existence checks, then the previous candidate's build
check_can_release(release_versions, version, answer, force) ==
    IF release_preconditions(release_versions, version) # "Ok"
    THEN release_preconditions(release_versions, version)
    ELSE IF answer.kind = "err" THEN "UnknownError"
    ELSE IF answer.kind = "none"
         THEN IF force THEN "Ok" ELSE "ReleaseBuildNotFoundError"
    ELSE IF is_waiting(from_github_result(answer))
         THEN IF force THEN "Ok" ELSE "ReleaseBuildOnGoingError"
    ELSE IF is_failed(from_github_result(answer))
         THEN IF force THEN "Ok" ELSE "ReleaseBuildFailedError"
    ELSE "Ok"

\* finish(release, version, force): the validation gate that opens it
finish_check_can_release ==
    /\ pc = "check_can_release"
    /\ UNCHANGED versionVars
    /\ UNCHANGED gitVars
    /\ UNCHANGED finishVars
    /\ UNCHANGED <<state, cmd, next_ver, idx, log>>
    /\ IF release_preconditions(get_release_versions(cmd.version), cmd.version) # "Ok"
       THEN /\ Return(release_preconditions(get_release_versions(cmd.version),
                                            cmd.version))
            /\ UNCHANGED ci
       ELSE \E answer \in Answers :
            /\ ci' = answer
            /\ IF check_can_release(get_release_versions(cmd.version),
                                    cmd.version, answer, cmd.force) # "Ok"
               THEN Return(check_can_release(get_release_versions(cmd.version),
                                             cmd.version, answer, cmd.force))
               ELSE pc' = "finish" /\ UNCHANGED <<result, failures>>

\* finish(), up to the repository synchronization
finish ==
    /\ pc = "finish"
    /\ UNCHANGED versionVars
    /\ UNCHANGED gitVars
    /\ UNCHANGED finishVars
    /\ UNCHANGED <<state, cmd, next_ver, idx, ci, log>>
    /\ IF release_preconditions(get_release_versions(cmd.version), cmd.version) # "Ok"
       THEN Return(release_preconditions(get_release_versions(cmd.version),
                                         cmd.version))
       ELSE pc' = "sync" /\ UNCHANGED <<result, failures>>

\* wrong: the chart is published right after its version is updated
update_charts_then_publish ==
    /\ pc = "update_charts"
    /\ UNCHANGED versionVars
    /\ chartVersion # cmd.version
    /\ chartVersion' = cmd.version
    /\ log' = Append(log, Ev("chart_commit", "charts"))
    /\ next_ver' = cmd.version
    /\ idx' = 1
    /\ pc' = "finalize_charts_release"
    /\ UNCHANGED gitVars
    /\ UNCHANGED <<finalCharts, pullRequests>>
    /\ UNCHANGED <<state, cmd, ci, result, failures>>

\* update_charts: rewrite the chart version and commit it; git commit
\* fails when the chart already carries that version (nothing to commit)
update_charts ==
    /\ pc = "update_charts"
    /\ UNCHANGED versionVars
    /\ UNCHANGED gitVars
    /\ UNCHANGED <<finalCharts, pullRequests>>
    /\ UNCHANGED <<state, cmd, ci>>
    /\ \/ /\ chartVersion # cmd.version
          /\ chartVersion' = cmd.version
          /\ log' = Append(log, Ev("chart_commit", "charts"))
          /\ next_ver' = cmd.version
          /\ idx' = 1
          /\ pc' = "tag_release_branch"
          /\ UNCHANGED <<result, failures>>
       \/ /\ chartVersion = cmd.version
          /\ Return("UnknownError")
          /\ UNCHANGED <<chartVersion, log, next_ver, idx>>
       \/ Fail("UnknownError") /\ UNCHANGED <<chartVersion, log, next_ver, idx>>

\* finalize_charts_release / publish_chart: push the release branch to the
\* chart's final branch
finalize_charts_release ==
    /\ pc = "finalize_charts_release"
    /\ UNCHANGED versionVars
    /\ UNCHANGED gitVars
    /\ UNCHANGED <<chartVersion, pullRequests>>
    /\ UNCHANGED <<state, cmd, next_ver, idx, ci>>
    /\ \/ /\ finalCharts' = finalCharts \cup {cmd.version}
          /\ log' = Append(log, Ev("publish", "charts"))
          /\ pc' = "finish_s3gw_update_default"
          /\ UNCHANGED <<result, failures>>
       \/ Fail("UnknownError") /\ UNCHANGED <<finalCharts, log>>

\* finish_s3gw_update_default: open the finishing pull request
finish_s3gw_update_default ==
    /\ pc = "finish_s3gw_update_default"
    /\ UNCHANGED versionVars
    /\ UNCHANGED gitVars
    /\ UNCHANGED <<chartVersion, finalCharts>>
    /\ UNCHANGED <<state, cmd, next_ver, idx, ci>>
    /\ \/ /\ pullRequests' = pullRequests \cup {cmd.version}
          /\ log' = Append(log, Ev("pull_request", "s3gw"))
          /\ Return("Ok")
       \/ Fail("UnknownError") /\ UNCHANGED <<pullRequests, log>>

\* ------------------------------------------------------------ specification
Next ==
    \/ HandleCmdStart
    \/ start
    \/ maybe_cut_branches
    \/ cut_branches_for
    \/ write_state
    \/ sync
    \/ start_release_candidate
    \/ tag_release_branch
    \/ push_release_branch
    \/ push_release_tag
    \/ update_submodules
    \/ copy_notes
    \/ stage_paths
    \/ commit_release
    \/ push_s3gw_branch
    \/ push_s3gw_tag
    \/ HandleCmdContinue
    \/ continue_release
    \/ get_release_status
    \/ HandleCmdFinish
    \/ finish_check_can_release
    \/ finish
    \/ update_charts
    \/ finalize_charts_release
    \/ finish_s3gw_update_default

Spec == Init /\ [][Next]_vars

\* ------------------------------------------------------ the Version functions
\* Versions Version::from_str returns: any major.minor, optionally a patch,
\* and with a patch optionally an rc, each of any number of digits.
Components == {0, 1, 999, 1000}
VersionInputs ==
    {Version(ma, mi, None, None) : ma \in 0..MaxMajor, mi \in 0..MaxMinor}
    \cup {Version(ma, mi, p, r) : ma \in 0..MaxMajor, mi \in 0..MaxMinor,
                                  p \in Components,
                                  r \in Components \cup {None}}

\* Strings handed to Version::from_str: version strings, and strings that
\* differ from one by a prefix, a suffix, an empty or oversized number, or a
\* misplaced or misspelt rc suffix.
Numerals == {<<>>, <<"0">>, <<"1">>, <<"0", "1">>, <<Huge>>}
StringInputs ==
    {prefix \o ma \o <<".">> \o mi \o p \o r \o suffix :
        prefix \in {<<>>, <<"v">>, <<"x">>},
        ma \in Numerals, mi \in Numerals,
        p \in {<<>>} \cup {<<".">> \o n : n \in Numerals},
        r \in {<<>>} \cup {<<"-", "r", "c">> \o n : n \in Numerals}
                     \cup {<<"-", "r">> \o n : n \in Numerals},
        suffix \in {<<>>, <<"x">>, <<".">>}}

\* Chart files: up to MaxLines lines, each a version line (with a value
\* from_str accepts, rejects or panics on) or another line, terminated by
\* \n or \r\n, the last one possibly by nothing.
ChartLines ==
    {Line(k[1], k[2], eol) :
        k \in {<<"version", <<"0", ".", "1", ".", "0">>>>,
               <<"version", <<"x">>>>,
               <<"version", <<"0", ".", Huge>>>>,
               <<"name", <<>>>>},
        eol \in {"\n", "\r\n", ""}}
ChartInputs ==
    {f \in UNION {[1..n -> ChartLines] : n \in 0..MaxLines} :
        \A i \in 1..(Len(f) - 1) : f[i].eol # ""}

InitVersions ==
    /\ InitWorkspace([tags |-> AllRepos({}), branches |-> AllRepos({})])
    /\ \/ /\ va \in VersionInputs /\ vb \in VersionInputs
          /\ text = <<>> /\ chart = <<>>
       \/ /\ va = NoVersion /\ vb = NoVersion
          /\ text \in StringInputs /\ chart = <<>>
       \/ /\ va = R0 /\ vb = NoVersion
          /\ text = <<>> /\ chart \in ChartInputs
    /\ ids = NoIds
    /\ lim = NoLim
    /\ ranged = NoAvail
    /\ parsed = NoParse
    /\ named = NoName
    /\ updated = NoUpdate
    /\ refs = {}
    /\ scan = NoScan
    /\ tree = <<>>
    /\ index = NoIndex
    /\ runs = <<>>
    /\ latest = NoLatest

\* No function has been applied to the inputs yet.
Fresh ==
    /\ ids = NoIds /\ lim = NoLim /\ ranged = NoAvail
    /\ parsed = NoParse /\ named = NoName /\ updated = NoUpdate

\* What every Version function leaves alone.
WorkspaceUnchanged ==
    /\ UNCHANGED <<refs, scan, tree, index, runs, latest>>
    /\ UNCHANGED gitVars
    /\ UNCHANGED finishVars
    /\ UNCHANGED <<state, pc, cmd, next_ver, idx, ci, log, result, failures>>

\* The ids of va and vb, and the last entry of the version map that
\* Repository::get_versions builds from the two as tags.
apply_get_version_id ==
    /\ Fresh
    /\ ids' = [a |-> get_version_id(va),
               b |-> get_version_id(vb),
               last |-> last_key_value(get_versions({va, vb}))]
    /\ UNCHANGED <<va, vb, lim, ranged, text, parsed, named, chart, updated>>
    /\ WorkspaceUnchanged

\* Version::min and Version::max of va, and va == va.max()
apply_min_max ==
    /\ Fresh
    /\ lim' = [min |-> min(va), max |-> max(va),
               eq_max |-> VersionEq(va, max(va))]
    /\ UNCHANGED <<va, vb, ids, ranged, text, parsed, named, chart, updated>>
    /\ WorkspaceUnchanged

\* Tags of a repository that carries va and vb: the tag pattern only
\* matches names with a patch component.
TagsOf(vs) == {v \in vs : v.patch # None}

\* get_release_versions_from_repo on a repository tagged va and vb, asked
\* for vb's release (for vb itself when vb is a base version).
apply_get_release_versions ==
    /\ Fresh
    /\ LET relver == IF vb.patch = None THEN vb ELSE get_release_version(vb)
           found == get_release_versions_from_tags(TagsOf({va, vb}), relver)
       IN  ranged' = [called |-> TRUE, relver |-> relver,
                     versions |-> {found[k] : k \in DOMAIN found}]
    /\ UNCHANGED <<va, vb, ids, lim, text, parsed, named, chart, updated>>
    /\ WorkspaceUnchanged

\* from_str and what the caller holds after it.
Parsed(of, s) ==
    [of |-> of, status |-> from_str(s).status, version |-> from_str(s).version,
     str |-> IF of = "version" THEN s
             ELSE IF from_str(s).status = "Ok"
                  THEN get_version_str(from_str(s).version)
                  ELSE <<>>]

\* Version::from_str(text), then get_version_str of the version it returned
apply_from_str ==
    /\ Fresh
    /\ parsed' = Parsed("text", text)
    /\ UNCHANGED <<va, vb, ids, lim, ranged, text, named, chart, updated>>
    /\ WorkspaceUnchanged

\* va.get_version_str(), then from_str of that string
apply_get_version_str ==
    /\ Fresh
    /\ parsed' = Parsed("version", get_version_str(va))
    /\ UNCHANGED <<va, vb, ids, lim, ranged, text, named, chart, updated>>
    /\ WorkspaceUnchanged

\* Repository::version_to_str of va, as a tag name or as a branch name
apply_version_to_str ==
    /\ Fresh
    /\ \E is_tag \in BOOLEAN :
         named' = [status |-> version_to_str(va, is_tag).status,
                   is_tag |-> is_tag,
                   name |-> version_to_str(va, is_tag).name]
    /\ UNCHANGED <<va, vb, ids, lim, ranged, text, parsed, chart, updated>>
    /\ WorkspaceUnchanged

\* chart_update_version(chart, va), with any one of its steps failing
apply_chart_update_version ==
    /\ Fresh
    /\ \E fault \in {"none", "open", "create", "read", "write", "remove",
                      "rename"} :
         updated' = chart_update_version(chart, va, fault)
    /\ UNCHANGED <<va, vb, ids, lim, ranged, text, parsed, named, chart>>
    /\ WorkspaceUnchanged

NextVersions ==
    \/ apply_chart_update_version
    \/ apply_version_to_str
    \/ apply_get_version_id
    \/ apply_min_max
    \/ apply_get_release_versions
    \/ apply_from_str
    \/ apply_get_version_str

SpecVersions == InitVersions /\ [][NextVersions]_vars

\* ---------------------------------------------------------------- ref scans
\* A ref that matches its pattern: a branch or a tag, and the group the
\* pattern captured.
Ref(type, cap) == [type |-> type, cap |-> cap]
is_branch(e) == e.type = "branch"
is_tag(e) == e.type = "tag"

\* Refs of a repository.  With the patterns of the default configuration a
\* branch captures \d+\.\d+ and a tag \d+\.\d+\.\d+.*; a configured pattern
\* can capture anything.
RefNames ==
    {Ref("branch", <<"1", ".", "0">>),
     Ref("branch", <<"1", ".", "1">>),
     Ref("branch", <<"1", ".", Huge>>),
     Ref("branch", <<"x">>),
     Ref("tag", <<"1", ".", "0", ".", "0", "-", "r", "c", "1">>),
     Ref("tag", <<"1", ".", "0", ".", "0", "-", "r", "c", "9", "9", "9">>),
     Ref("tag", <<"1", ".", "0", ".", "0">>),
     Ref("tag", <<"1", ".", "0", ".", "1", "-", "r", "c", "1">>),
     Ref("tag", <<"0", ".", "9", ".", "0">>),
     Ref("tag", <<"1", ".", "0", ".", "0", "x">>),
     Ref("tag", <<"1", ".", "0", ".", Huge>>),
     Ref("tag", <<"1", ".", "0">>)}
RefInputs == {rs \in SUBSET RefNames : Cardinality(rs) <= MaxRefs}

InitRefs ==
    /\ InitWorkspace([tags |-> AllRepos({}), branches |-> AllRepos({})])
    /\ va = NoVersion /\ vb = NoVersion /\ text = <<>> /\ chart = <<>>
    /\ ids = NoIds /\ lim = NoLim /\ ranged = NoAvail
    /\ parsed = NoParse /\ named = NoName /\ updated = NoUpdate
    /\ refs \in RefInputs
    /\ scan = NoScan
    /\ tree = <<>>
    /\ index = NoIndex
    /\ runs = <<>>
    /\ latest = NoLatest

RefsUnchanged ==
    /\ UNCHANGED <<va, vb, ids, lim, ranged, text, parsed, named, chart,
                   updated, refs, runs, latest>>
    /\ UNCHANGED gitVars
    /\ UNCHANGED finishVars
    /\ UNCHANGED <<state, pc, cmd, next_ver, idx, ci, log, result, failures>>

\* BTreeMap::insert
Put(m, k, v) == [x \in DOMAIN m \cup {k} |-> IF x = k THEN v ELSE m[x]]

\* What is left to do: the branch loop, then the tag loop.
PhaseOf(todo) ==
    IF \E e \in todo : is_branch(e) THEN "branches"
    ELSE IF todo # {} THEN "tags" ELSE "done"

\* get_releases up to the loops: the refs are split in branches and tags
get_releases ==
    /\ scan = NoScan /\ index = NoIndex
    /\ scan' = [phase |-> PhaseOf(refs), todo |-> refs]
    /\ tree' = <<>>
    /\ UNCHANGED index
    /\ RefsUnchanged

\* One round of the branch loop, on any branch not yet seen (the refs come
\* from a hash map): from_str(..).unwrap(), then insert unless present.
get_releases_branch ==
    /\ scan.phase = "branches"
    /\ \E branch \in {e \in scan.todo : is_branch(e)} :
         LET version == from_str(branch.cap)
             verid == get_version_id(version.version)
         IN  IF version.status # "Ok"
             THEN scan' = [scan EXCEPT !.phase = "panic"]
                  /\ UNCHANGED tree
             ELSE /\ scan' = [phase |-> PhaseOf(scan.todo \ {branch}),
                              todo |-> scan.todo \ {branch}]
                  /\ tree' =
                       IF verid \in DOMAIN tree THEN tree
                       ELSE Put(tree, verid,
                                [version |-> version.version,
                                 releases |-> <<>>])
    /\ UNCHANGED index
    /\ RefsUnchanged

\* is_complete after one more version of the entry
is_complete_after(entry, version) == entry.is_complete \/ version.rc = None

\* One round of the tag loop, on any tag not yet seen: a tag that does not
\* parse or whose base version is not in the tree is skipped.
get_releases_tag ==
    /\ scan.phase = "tags"
    /\ \E tag \in scan.todo :
         LET parsed_tag == from_str(tag.cap)
             version == parsed_tag.version
             base_ver_id == get_version_id(get_base_version(version))
             release_ver == get_release_version(version)
             release_ver_id == get_version_id(release_ver)
             seen == [phase |-> PhaseOf(scan.todo \ {tag}),
                      todo |-> scan.todo \ {tag}]
         IN  IF parsed_tag.status = "panic"
             THEN scan' = [scan EXCEPT !.phase = "panic"]
                  /\ UNCHANGED tree
             ELSE IF \/ parsed_tag.status = "Err"
                     \/ base_ver_id \notin DOMAIN tree
             THEN scan' = seen /\ UNCHANGED tree
             ELSE IF version.patch = None      \* get_release_version asserts
             THEN scan' = [scan EXCEPT !.phase = "panic"]
                  /\ UNCHANGED tree
             ELSE LET base_version == tree[base_ver_id]
                      entry == IF release_ver_id \in DOMAIN base_version.releases
                               THEN base_version.releases[release_ver_id]
                               ELSE [release |-> release_ver,
                                     versions |-> <<>>,
                                     is_complete |-> FALSE]
                      version_entry_tree ==
                          [release |-> entry.release,
                           versions |-> Put(entry.versions,
                                            get_version_id(version), version),
                           is_complete |-> is_complete_after(entry, version)]
                  IN  /\ scan' = seen
                      /\ tree' =
                           Put(tree, base_ver_id,
                               [version |-> base_version.version,
                                releases |-> Put(base_version.releases,
                                                 release_ver_id,
                                                 version_entry_tree)])
    /\ UNCHANGED index
    /\ RefsUnchanged

\* get_versions_from_refs on the refs of one kind, scanned in any order: a
\* capture that does not parse is skipped, and of two versions with one id
\* the one scanned first stays.
get_versions_from_refs(type) ==
    LET mine == {e \in refs : e.type = type}
        ok == {from_str(e.cap).version :
                  e \in {x \in mine : from_str(x.cap).status = "Ok"}}
        vids == {get_version_id(v) : v \in ok}
    IN  IF \E e \in mine : from_str(e.cap).status = "panic"
        THEN index' = [status |-> "panic", versions |-> {}]
        ELSE \E versions \in [vids -> ok] :
                /\ \A k \in vids : get_version_id(versions[k]) = k
                /\ index' = [status |-> "Ok",
                             versions |-> {versions[k] : k \in vids}]

\* Repository::get_versions
get_versions_of_refs ==
    /\ scan = NoScan /\ index = NoIndex
    /\ get_versions_from_refs("tag")
    /\ UNCHANGED <<scan, tree>>
    /\ RefsUnchanged

\* Repository::get_release_branches
get_release_branches_of_refs ==
    /\ scan = NoScan /\ index = NoIndex
    /\ get_versions_from_refs("branch")
    /\ UNCHANGED <<scan, tree>>
    /\ RefsUnchanged

NextRefs ==
    \/ get_releases
    \/ get_releases_branch
    \/ get_releases_tag
    \/ get_versions_of_refs
    \/ get_release_branches_of_refs

SpecRefs == InitRefs /\ [][NextRefs]_vars

\* ------------------------------------------------------------ workflow runs
\* An Option: None is the empty sequence, Some(x) the sequence of x alone.
Some(x) == <<x>>
Unwrap(opt, default) == IF opt = <<>> THEN default ELSE opt[1]

UpperChars == <<"A", "B", "C", "D", "E", "F", "G", "H", "I", "J", "K", "L", "M",
                "N", "O", "P", "Q", "R", "S", "T", "U", "V", "W", "X", "Y", "Z">>
LowerChars == <<"a", "b", "c", "d", "e", "f", "g", "h", "i", "j", "k", "l", "m",
                "n", "o", "p", "q", "r", "s", "t", "u", "v", "w", "x", "y", "z">>

\* str::to_lowercase
to_lowercase(s) ==
    [i \in 1..Len(s) |->
        IF \E k \in 1..Len(UpperChars) : UpperChars[k] = s[i]
        THEN LowerChars[CHOOSE k \in 1..Len(UpperChars) : UpperChars[k] = s[i]]
        ELSE s[i]]

\* The name the release workflow is looked up by.
release_s3gw == <<"r", "e", "l", "e", "a", "s", "e", " ", "s", "3", "g", "w">>

\* GitHubWorkflowResult: the fields the selection reads
GitHubWorkflowResult(name, status, conclusion, created_at) ==
    [name |-> name, status |-> status, conclusion |-> conclusion,
     created_at |-> created_at]

\* results.sort_by(|a, b| a.created_at.cmp(&b.created_at)): a stable sort,
\* runs created at the same time keep the order GitHub listed them in
RECURSIVE sort_by_created_at(_)
sort_by_created_at(results) ==
    IF results = <<>> THEN <<>>
    ELSE LET first == CHOOSE i \in 1..Len(results) :
                 /\ \A j \in 1..Len(results) :
                        results[i].created_at <= results[j].created_at
                 /\ \A j \in 1..(i - 1) :
                        results[j].created_at # results[i].created_at
             rest == [j \in 1..(Len(results) - 1) |->
                         IF j < first THEN results[j] ELSE results[j + 1]]
         IN  <<results[first]>> \o sort_by_created_at(rest)

\* The filter closure of github_get_latest_release_workflow.
is_release_run(e) ==
    IF e.name = <<>> THEN FALSE
    ELSE IF to_lowercase(e.name[1]) # release_s3gw THEN FALSE
    ELSE IF e.conclusion = <<>> THEN TRUE
    ELSE e.conclusion[1] # "cancelled"

\* github_get_latest_release_workflow, given the runs GitHub answered with
github_get_latest_release_workflow(results) ==
    IF results = <<>>
    THEN [NoLatest EXCEPT !.kind = "none"]
    ELSE LET filtered == SelectSeq(sort_by_created_at(results), is_release_run)
         IN  IF filtered = <<>>
             THEN [NoLatest EXCEPT !.kind = "none"]
             ELSE LET v == filtered[1]
                      res == from_github_result(
                                 [status |-> Unwrap(v.status, "null"),
                                  conclusion |-> Unwrap(v.conclusion, "null")])
                  IN  [kind |-> "run", status |-> res.status,
                       success |-> res.success, created_at |-> v.created_at]

\* The runs GitHub may list for a tag: the release workflow under two
\* spellings, finished, cancelled or still running, another workflow, and
\* a run whose name is not populated; created at times 1..MaxRuns.
RunInputs ==
    LET shapes ==
            { <<Some(release_s3gw), "completed", Some("success")>>,
              <<Some(<<"R", "e", "l", "e", "a", "s", "e", " ", "S", "3", "G", "W">>),
                "completed", Some("failure")>>,
              <<Some(release_s3gw), "completed", Some("cancelled")>>,
              <<Some(release_s3gw), "in_progress", <<>>>>,
              <<Some(<<"l", "i", "n", "t">>), "completed", Some("success")>>,
              <<<<>>, "queued", <<>>>> }
        run == { GitHubWorkflowResult(sh[1], Some(sh[2]), sh[3], t) :
                    sh \in shapes, t \in 1..MaxRuns }
    IN  UNION { [1..n -> run] : n \in 0..MaxRuns }

InitRuns ==
    /\ InitWorkspace([tags |-> AllRepos({}), branches |-> AllRepos({})])
    /\ va = NoVersion /\ vb = NoVersion /\ text = <<>> /\ chart = <<>>
    /\ ids = NoIds /\ lim = NoLim /\ ranged = NoAvail
    /\ parsed = NoParse /\ named = NoName /\ updated = NoUpdate
    /\ refs = {} /\ scan = NoScan /\ tree = <<>> /\ index = NoIndex
    /\ runs \in RunInputs
    /\ latest = NoLatest

RunsUnchanged ==
    /\ UNCHANGED <<va, vb, ids, lim, ranged, text, parsed, named, chart,
                   updated, refs, scan, tree, index, runs>>
    /\ UNCHANGED gitVars
    /\ UNCHANGED finishVars
    /\ UNCHANGED <<state, pc, cmd, next_ver, idx, ci, log, result, failures>>

\* github_get_workflows_status answered: select the release workflow run
apply_github_get_latest_release_workflow ==
    /\ latest = NoLatest
    /\ latest' = github_get_latest_release_workflow(runs)
    /\ RunsUnchanged

\* github_get_workflows_status failed: the request or its decoding
github_get_workflows_status_fails ==
    /\ latest = NoLatest
    /\ latest' = [NoLatest EXCEPT !.kind = "err"]
    /\ RunsUnchanged

NextRuns ==
    \/ apply_github_get_latest_release_workflow
    \/ github_get_workflows_status_fails

SpecRuns == InitRuns /\ [][NextRuns]_vars

\* ------------------------------------------------------------------ claims
Dependents == RepoNames \ {"s3gw"}
LogHas(e) == \E i \in 1..Len(log) : log[i] = e
Idle(kind) == pc = "idle" /\ cmd.kind = kind

\* log[i] is an operation of perform_release on the superproject
SuperprojectOp(i) ==
    \/ log[i][1] \in {"pin", "notes", "stage"}
    \/ log[i][2] = "s3gw" /\ log[i][1] \in {"commit", "tag", "push_branch", "push_tag"}

\* before log[i], repository r was tagged, and its branch and tag were pushed
ReleasedBefore(r, i) ==
    \E a \in 1..(i - 1) :
        /\ log[a] = Ev("tag", r)
        /\ \E b \in (a + 1)..(i - 1) :
              /\ log[b] = Ev("push_branch", r)
              /\ \E c \in (b + 1)..(i - 1) : log[c] = Ev("push_tag", r)

\* C1: perform_release does nothing on the superproject (pin, notes, stage,
\* commit, tag, push) before ui, charts and ceph are each tagged with next_ver
\* and have their branch and tag pushed; and a step of the dependent phase
\* that fails returns an error and leaves the superproject as it was.
C1_DependentsBeforeSuperproject ==
    /\ [](\A i \in 1..Len(log) : SuperprojectOp(i) =>
            \A r \in Dependents :
                /\ ReleasedBefore(r, i)
                /\ next_ver \in localTags[r]
                /\ next_ver \in remoteTags[r]
                /\ get_base_version(cmd.version) \in remoteBranches[r])
    /\ [][(/\ pc \in {"tag_release_branch", "push_release_branch", "push_release_tag"}
           /\ pc' = "idle")
          => /\ result' \in (IF pc = "tag_release_branch"
                             THEN {"TaggingError", "panic"}
                             ELSE {"PushingError", "panic"})
             /\ log' = log
             /\ \A i \in 1..Len(log) : ~SuperprojectOp(i)
             /\ localTags'["s3gw"] = localTags["s3gw"]
             /\ remoteTags'["s3gw"] = remoteTags["s3gw"]
             /\ remoteBranches'["s3gw"] = remoteBranches["s3gw"]]_vars

\* a release went through: the superproject's tag was pushed last
C1_Witness ==
    /\ Idle("start") /\ result = "Ok"
    /\ LogHas(Ev("push_tag", "s3gw"))
    /\ \A r \in Dependents : next_ver \in remoteTags[r]

\* C2: at its availability check Start returns ReleaseExistsError when the
\* superproject's range for `version` holds a version equal to it,
\* ReleaseStartedError when the range is non-empty without such a version,
\* and goes on only when the range is empty.
C2_StartAvailability ==
    [][(pc = "start" /\ result' # "SyncError") =>
         LET avail == get_release_versions_from_tags(localTags'["s3gw"], cmd.version)
             exact == \E id \in DOMAIN avail :
                          get_version_id(avail[id]) = get_version_id(cmd.version)
         IN  /\ exact => pc' = "idle" /\ result' = "ReleaseExistsError"
             /\ (~exact /\ DOMAIN avail # {}) =>
                    pc' = "idle" /\ result' = "ReleaseStartedError"
             /\ DOMAIN avail = {} =>
                    result' \notin {"ReleaseExistsError", "ReleaseStartedError"}
             /\ pc' # "idle" => DOMAIN avail = {}]_vars

\* Start was refused because candidates exist but not the version itself
C2_Witness ==
    /\ Idle("start") /\ result = "ReleaseStartedError"
    /\ cmd.version = R0
    /\ Version(1, 0, 0, 1) \in localTags["s3gw"]
    /\ R0 \notin localTags["s3gw"]

\* C3: Start returns CorruptedError when the superproject has nothing in the
\* range for `version` but a dependent repository has; it cuts no branch and
\* tags nothing.
C3_DependentsAhead ==
    [][(/\ pc = "start" /\ result' # "SyncError"
        /\ DOMAIN get_release_versions_from_tags(localTags'["s3gw"], cmd.version) = {}
        /\ \E r \in Dependents :
              DOMAIN get_release_versions_from_tags(localTags'[r], cmd.version) # {})
       => /\ pc' = "idle" /\ result' = "CorruptedError"
          /\ log' = <<>>
          /\ localTags' = Fetched
          /\ UNCHANGED <<remoteTags, localBranches, remoteBranches, state>>]_vars

\* Start found ui tagged for the release and the superproject not
C3_Witness ==
    /\ Idle("start") /\ result = "CorruptedError"
    /\ DOMAIN get_release_versions_from_repo("s3gw", cmd.version) = {}
    /\ DOMAIN get_release_versions_from_repo("ui", cmd.version) # {}
    /\ \A r \in RepoNames : localBranches[r] = {}

\* C4: Continue returns NotStartedError when the superproject's range for
\* the version is empty and ReleaseExistsError when the final release is
\* tagged; in both cases it creates no tag.
C4_ContinuePreconditions ==
    [][pc = "continue_release" =>
         /\ DOMAIN get_release_versions(cmd.version) = {} =>
                /\ pc' = "idle" /\ result' = "NotStartedError"
                /\ UNCHANGED gitVars
         /\ (cmd.version.rc = None /\ cmd.version \in localTags["s3gw"]) =>
                /\ pc' = "idle" /\ result' = "ReleaseExistsError"
                /\ UNCHANGED gitVars]_vars

\* Continue was refused for a release nobody started
C4_Witness ==
    /\ Idle("continue") /\ result = "NotStartedError"
    /\ cmd.version = R0
    /\ \A r \in RepoNames : localTags[r] \cap {Version(1, 0, 0, 1), R0} = {}

\* the highest version of the superproject in the range for `relver`
HighestRelease(relver) ==
    LET in_range == {get_release_versions(relver)[k] :
                        k \in DOMAIN get_release_versions(relver)}
    IN  CHOOSE v \in in_range :
            \A w \in in_range : get_version_id(w) <= get_version_id(v)

\* C5: a Continue whose highest existing release is rcN picks rc(N+1), tags
\* nothing else, and on success has rc(N+1) tagged and pushed on ui, charts,
\* ceph and s3gw; when the highest existing release has no rc it returns an
\* error and creates no tag.
C5_ContinueNextCandidate ==
    /\ [][(cmd.kind = "continue" /\ pc = "start_release_candidate") =>
            IF HighestRelease(cmd.version).rc # None
            THEN /\ pc' = "tag_release_branch"
                 /\ next_ver' = [cmd.version EXCEPT
                                    !.rc = HighestRelease(cmd.version).rc + 1]
            ELSE /\ pc' = "idle" /\ result' \notin {"Ok", "running"}
                 /\ log' = log
                 /\ UNCHANGED gitVars]_vars
    /\ [][(cmd.kind = "continue" /\ pc # "idle") =>
            \A r \in RepoNames :
                /\ localTags'[r] \subseteq Fetched[r] \cup {next_ver}
                /\ remoteTags'[r] \subseteq remoteTags[r] \cup {next_ver}]_vars
    /\ [](Idle("continue") /\ result = "Ok" =>
            /\ next_ver.rc >= 2
            /\ [next_ver EXCEPT !.rc = @ - 1] \in localTags["s3gw"]
            /\ \A r \in RepoNames :
                  next_ver \in localTags[r] /\ next_ver \in remoteTags[r])

\* Continue made rc2 out of rc1 in all four repositories
C5_Witness ==
    /\ Idle("continue") /\ result = "Ok"
    /\ next_ver = Version(1, 0, 0, 2)
    /\ \A r \in RepoNames : next_ver \in remoteTags[r]

\* C6: once the final tag of a version is in the superproject, a Start,
\* Continue or Finish for that version fails at its first step, with
\* ReleaseExistsError (Start: or with SyncError, when its synchronization
\* fails first), and creates or pushes nothing.
C6_FinalIsFinal ==
    [][(/\ pc \in {"start", "continue_release", "check_can_release"}
        /\ cmd.version.rc = None
        /\ cmd.version \in localTags["s3gw"])
       => /\ pc' = "idle"
          /\ result' \in {"ReleaseExistsError"} \cup
                         (IF pc = "start" THEN {"SyncError"} ELSE {})
          /\ log' = <<>>
          /\ localTags' = localTags
          /\ UNCHANGED <<remoteTags, localBranches, remoteBranches, state>>
          /\ UNCHANGED finishVars]_vars

\* Finish published 1.0.0 in this workspace, and a later Continue was refused
C6_Witness ==
    /\ Idle("continue") /\ result = "ReleaseExistsError"
    /\ cmd.version = R0
    /\ R0 \in pullRequests
    /\ log = <<>>

\* the previous candidate's build is queued or running / has failed
Building(answer) ==
    answer.kind = "run" /\ answer.status \in {"queued", "in_progress"}
BuildFailed(answer) ==
    answer.kind = "run" /\ answer.status = "completed" /\ answer.conclusion # "success"

\* C7: a Continue without force returns an error and tags nothing when the
\* previous candidate's build is queued, in progress or failed; with force
\* it goes on, and on success the next candidate exists everywhere.
C7_ContinueGate ==
    /\ [][(pc = "get_release_status" /\ (Building(ci') \/ BuildFailed(ci'))) =>
            IF cmd.force
            THEN pc' = "start_release_candidate"
            ELSE /\ pc' = "idle" /\ result' \notin {"Ok", "running"}
                 /\ log' = <<>>
                 /\ UNCHANGED gitVars]_vars
    /\ []((cmd.kind = "continue" /\ ~cmd.force /\ (Building(ci) \/ BuildFailed(ci)))
            => pc = "idle" /\ result # "Ok" /\ log = <<>>)
    /\ []((Idle("continue") /\ cmd.force /\ result = "Ok")
            => \A r \in RepoNames : next_ver \in remoteTags[r])

\* a forced Continue made the next candidate while the build was running
C7_Witness ==
    /\ Idle("continue") /\ result = "Ok"
    /\ cmd.force
    /\ ci = Answer("run", "in_progress", "null")
    /\ next_ver.rc = 2
    /\ \A r \in RepoNames : next_ver \in remoteTags[r]

C9_CheckCanReleaseVerdicts ==
    (cmd.kind = "finish" /\ ~cmd.force /\ ci.kind = "run") =>
        /\ (pc = "idle" /\ result = "ReleaseBuildOnGoingError") <=> Building(ci)
        /\ (pc = "idle" /\ result = "ReleaseBuildFailedError") <=> BuildFailed(ci)
        /\ ci = Answer("run", "completed", "success") =>
              ~(pc = "idle" /\ result \in {"ReleaseBuildOnGoingError",
                                           "ReleaseBuildFailedError"})

\* C10: a Start of 1.0.0 that had to cut the release branch in all four
\* repositories (nothing of 1.0 existed) and met no failure ends with the
\* branch 1.0 in all four, 1.0.0-rc1 tagged and pushed in all four, and
\* release.json holding 1.0.0; the candidate of a Start is always rc1.
C10_FreshStart ==
    /\ (/\ Idle("start") /\ cmd.version = R0
        /\ failures = 0
        /\ \A r \in RepoNames : LogHas(Ev("cut", r)))
       => /\ result = "Ok"
          /\ state = [release_version |-> R0]
          /\ next_ver = Version(1, 0, 0, 1)
          /\ \A r \in RepoNames :
                /\ BaseR0 \in localBranches[r]
                /\ BaseR0 \in remoteBranches[r]
                /\ Version(1, 0, 0, 1) \in localTags[r]
                /\ Version(1, 0, 0, 1) \in remoteTags[r]
    /\ (cmd.kind = "start" /\ next_ver # NoVersion) => next_ver.rc = 1

\* Start 1.0.0 from no history went through
C10_Witness ==
    /\ Idle("start") /\ cmd.version = R0 /\ result = "Ok"
    /\ failures = 0
    /\ \A r \in RepoNames : LogHas(Ev("cut", r))
    /\ \A r \in RepoNames : remoteTags[r] = {Version(1, 0, 0, 1)}

\* C11: a Finish runs perform_release with next_ver = version, so what it
\* tags and pushes is the final version, on ui, charts, ceph and then the
\* superproject; the chart's final branch is pushed only after the
\* superproject's tag was pushed, and the pull request is opened after the
\* chart publication, as the last operation.
C11_FinishOrder ==
    cmd.kind = "finish" =>
        /\ next_ver # NoVersion => next_ver = cmd.version
        /\ \A i \in 1..Len(log) :
              /\ log[i][1] \in {"tag", "push_tag"} =>
                    /\ cmd.version.patch # None /\ cmd.version.rc = None
                    /\ cmd.version \in localTags[log[i][2]]
              /\ log[i] = Ev("tag", "s3gw") =>
                    \A r \in Dependents : ReleasedBefore(r, i)
              /\ log[i] = Ev("publish", "charts") =>
                    /\ \E j \in 1..(i - 1) : log[j] = Ev("push_tag", "s3gw")
                    /\ \A r \in RepoNames : cmd.version \in remoteTags[r]
                    /\ cmd.version \in finalCharts
              /\ log[i] = Ev("pull_request", "s3gw") =>
                    /\ i = Len(log)
                    /\ log[i - 1] = Ev("publish", "charts")
                    /\ cmd.version \in pullRequests
        /\ (pc = "idle" /\ result = "Ok") =>
              /\ LogHas(Ev("pull_request", "s3gw"))
              /\ \A r \in RepoNames : cmd.version \in remoteTags[r]

\* Finish released 1.0.0: final tags pushed, chart published, pull request open
C11_Witness ==
    /\ Idle("finish") /\ result = "Ok"
    /\ cmd.version = R0
    /\ \A r \in RepoNames : R0 \in remoteTags[r]
    /\ R0 \in finalCharts
    /\ R0 \in pullRequests

\* C12: a Continue or Finish that is run again after perform_release failed
\* tolerates the dependents that already carry the tag: at the tagging step
\* of a dependent repository already tagged with next_ver, and with no
\* failure of the environment, the command goes on instead of returning.
C12_RerunToleratesTagged ==
    [][(/\ pc = "tag_release_branch"
        /\ cmd.kind \in {"continue", "finish"}
        /\ cmd.version.patch # None
        /\ next_ver \in localTags[get_submodules[idx]]
        /\ failures' = failures)
       => pc' # "idle"]_vars

\* C13: a Start of 1.0.0 that failed inside perform_release (release.json
\* written, a dependent repository tagged rc1, the superproject not tagged)
\* can be run again: the command layer accepts the second Start of the same
\* version.
C13_StartRerunAccepted ==
    (/\ Idle("start") /\ cmd.version = R0
     /\ state = [release_version |-> R0]
     /\ \E r \in Dependents : Version(1, 0, 0, 1) \in localTags[r]
     /\ DOMAIN get_release_versions(R0) = {})
    => result # "StateFound"

\* C14: a Finish of 1.0.0 that is run again in the workspace whose earlier
\* Finish pushed the final tags and then failed to publish the chart or to
\* open the pull request is not turned away as already released: it gets to
\* the publication steps.
C14_FinishRerunPublishes ==
    (/\ Idle("finish") /\ cmd.version = R0
     /\ chartVersion = R0
     /\ \A r \in RepoNames : R0 \in remoteTags[r]
     /\ R0 \notin pullRequests)
    => result # "ReleaseExistsError"

\* C15: release.json is written only by a transition that succeeded: when
\* start() returns an error, no release state for its version is left.
C15_NoStateAfterFailedStart ==
    (Idle("start") /\ result \notin {"Ok", "StateFound"})
    => state # [release_version |-> cmd.version]

\* C16: once release.json exists no command changes or removes it; it is
\* written by Start alone, and a Start is refused by the command layer
\* whenever a release state is present, for the same or another version.
C16_StateIsNeverRewritten ==
    [][/\ state # NoState => state' = state
       /\ state' # state => (cmd.kind = "start" /\ pc = "write_state")
       /\ (pc = "idle" /\ cmd'.kind = "start" /\ state # NoState) =>
              (pc' = "idle" /\ result' = "StateFound")]_vars

\* with 1.0.0 in release.json, a Start of another version was refused
C16_Witness ==
    /\ Idle("start") /\ result = "StateFound"
    /\ state = [release_version |-> R0]
    /\ cmd.version # R0

\* C17: a persisted release state holds a version with patch set and no rc,
\* whatever version was given to Start.
C17_StateIsReleaseVersion ==
    state # NoState =>
        /\ state.release_version.patch # None
        /\ state.release_version.rc = None

\* C18: a Start that passed its tag checks goes on to cut the release branch
\* in every repository that lacks it, also when only some of the four lack
\* it (the operator confirming, and nothing failing).
C18_CutsWhereLacking ==
    [][(/\ pc = "maybe_cut_branches"
        /\ Len(repos_to_cut(cmd.version)) > 0
        /\ failures' = failures)
       => pc' = "cut_branches_for"]_vars

\* The tuple (major, minor, patch-or-999, rc-or-999) of a version.
Tuple(v) == <<v.major, v.minor,
              IF v.patch = None THEN 999 ELSE v.patch,
              IF v.rc = None THEN 999 ELSE v.rc>>
LexLess(s, t) ==
    \E i \in 1..4 : s[i] < t[i] /\ \A j \in 1..(i - 1) : s[j] = t[j]
Applied == ids # NoIds

\* C19: version_id is strictly monotonic in the lexicographic order of
\* (major, minor, patch-or-999, rc-or-999): whenever va is below vb by this
\* tuple, the id of va is below the id of vb.
C19_StrictlyMonotonic ==
    (Applied /\ LexLess(Tuple(va), Tuple(vb))) => ids.a < ids.b

\* C20: the final version of a release has an id above that of each of its
\* candidates, a base version has an id above that of each concrete version
\* under it, and the last entry of the version map of the two is the final
\* release (the base version).
C20_FinalAndBaseAreLast ==
    /\ (/\ Applied
        /\ get_base_version(va) = get_base_version(vb)
        /\ va.patch # None /\ va.patch = vb.patch
        /\ va.rc # None /\ vb.rc = None)
       => (ids.a < ids.b /\ ids.last = vb)
    /\ (/\ Applied
        /\ get_base_version(va) = vb
        /\ va.patch # None)
       => (ids.a < ids.b /\ ids.last = vb)
Limited == lim # NoLim

\* C21 (as stated): a base version is not equal to its max(), and a final
\* release is not equal to its own max().
C21_MaxIsAnotherVersion ==
    (Limited /\ va.rc = None) => ~lim.eq_max

\* C21: version equality is equality of version ids, and under it a base
\* version is equal to its max() and a final release is equal to its own
\* max(): an absent patch or rc counts as 999 in the id, which is what max()
\* fills in.
C21_MaxIsTheSameVersion ==
    Limited =>
        /\ lim.eq_max <=> (get_version_id(va) = get_version_id(lim.max))
        /\ va.rc = None => lim.eq_max
C21_Witness ==
    /\ Limited
    /\ va = Version(1, 0, None, None)
    /\ lim.max = Version(1, 0, 999, 999)
    /\ lim.eq_max

\* C22: the id of min(v) is at most the id of v, which is at most the id of
\* max(v); min(v) is v with each absent field replaced by 0, max(v) is v with
\* each absent field replaced by 999, and both keep the fields v has.
FilledWith(v, w, fill) ==
    /\ w.major = v.major /\ w.minor = v.minor
    /\ w.patch = (IF v.patch = None THEN fill ELSE v.patch)
    /\ w.rc = (IF v.rc = None THEN fill ELSE v.rc)
C22_MinMaxSandwich ==
    Limited =>
        /\ get_version_id(lim.min) <= get_version_id(va)
        /\ get_version_id(va) <= get_version_id(lim.max)
        /\ FilledWith(va, lim.min, 0)
        /\ FilledWith(va, lim.max, 999)
C22_Witness ==
    /\ Limited
    /\ va = Version(1, 1, 1000, None)
    /\ lim.min = Version(1, 1, 1000, 0)
    /\ lim.max = Version(1, 1, 1000, 999)
\* C23: the range query returns exactly the tagged versions whose id lies in
\* [id of min(relver), id of max(relver)]; for a relver with patch set these
\* are exactly the tagged final release and candidates of relver's
\* major.minor.patch, and no version of another release.
C23_RangeIsTheRelease ==
    ranged.called =>
        /\ ranged.versions =
             {v \in TagsOf({va, vb}) :
                /\ get_version_id(min(ranged.relver)) <= get_version_id(v)
                /\ get_version_id(v) <= get_version_id(max(ranged.relver))}
        /\ ranged.relver.patch # None =>
             ranged.versions =
                {v \in TagsOf({va, vb}) :
                    /\ v.major = ranged.relver.major
                    /\ v.minor = ranged.relver.minor
                    /\ v.patch = ranged.relver.patch}
\* A string of the form major.minor[.patch[-rcN]], with or without a
\* leading v: numbers are runs of digits.
RECURSIVE IsDotted(_, _)
IsDotted(s, n) ==
    \/ n = 1 /\ IsNumber(s)
    \/ /\ n > 1
       /\ \E i \in 2..(Len(s) - 1) :
            /\ s[i] = "."
            /\ IsNumber(SubSeq(s, 1, i - 1))
            /\ IsDotted(SubSeq(s, i + 1, Len(s)), n - 1)
IsVersionString(s) ==
    LET body == IF s # <<>> /\ s[1] = "v" THEN Tail(s) ELSE s
    IN  \/ IsDotted(body, 2)
        \/ IsDotted(body, 3)
        \/ \E i \in 1..(Len(body) - 3) :
             /\ SubSeq(body, i, i + 2) = <<"-", "r", "c">>
             /\ IsDotted(SubSeq(body, 1, i - 1), 3)
             /\ IsNumber(SubSeq(body, i + 3, Len(body)))

\* s without its leading v and without the leading zeros of its numbers.
RECURSIVE Normalized(_, _)
Normalized(s, i) ==
    IF i > Len(s) THEN <<>>
    ELSE IF \/ i = 1 /\ s[1] = "v"
            \/ /\ s[i] = "0"
               /\ i < Len(s) /\ IsDigit(s[i + 1])
               /\ \A j \in 1..(i - 1) :
                    (\A k \in j..(i - 1) : IsDigit(s[k])) => s[j] = "0"
         THEN Normalized(s, i + 1)
         ELSE <<s[i]>> \o Normalized(s, i + 1)

\* C27: for every version string s, from_str(s) succeeds and
\* get_version_str of the result is s without a leading v and without
\* leading zeros; and for every version v, from_str(get_version_str(v))
\* succeeds with the fields of v.
C27_RoundTrip ==
    /\ (parsed.of = "text" /\ IsVersionString(text)) =>
          (parsed.status = "Ok" /\ parsed.str = Normalized(text, 1))
    /\ parsed.of = "version" =>
          (parsed.status = "Ok" /\ parsed.version = va)

\* C28: from_str returns Ok on no string that is not of the form
\* major.minor[.patch[-rcN]] with an optional leading v, and every version it
\* returns with rc set has patch set.
C28_RejectsOtherStrings ==
    parsed.of = "text" =>
        /\ ~IsVersionString(text) => parsed.status = "Err"
        /\ (parsed.status = "Ok" /\ parsed.version.rc # None) =>
              parsed.version.patch # None
C28_Witness ==
    /\ parsed.of = "text"
    /\ text = <<"v", "1", ".", "0", "-", "r", "c", "1">>
    /\ parsed.status = "Err"
\* C29: formatting a version with a template that has a placeholder of a
\* field the version lacks fails: it returns no name (here: the tag format,
\* which has the patch placeholder, on a version without patch).
C29_MissingFieldFails ==
    (named.status # "none" /\ named.is_tag /\ va.patch = None) =>
        named.status # "Ok"
\* C30: chart_update_version replaces each version line by
\* "version: <new version>" and keeps every other line as it is, terminator
\* included, and keeps the last line without a terminator if it had none;
\* when it returns an error the chart file is as it was.
C30_KeepsOtherLines ==
    updated.status # "none" =>
        IF updated.status = "Ok"
        THEN /\ Len(updated.file) = Len(chart)
             /\ \A i \in 1..Len(chart) :
                  IF chart[i].kind = "version"
                  THEN /\ updated.file[i].kind = "version"
                       /\ updated.file[i].value = get_version_str(va)
                       /\ updated.file[i].eol = chart[i].eol
                  ELSE updated.file[i] = chart[i]
        ELSE updated.file = chart
\* The refs whose captured group is a version, and those versions.
WellFormed(type) ==
    {e \in refs : e.type = type /\ from_str(e.cap).status = "Ok"}
VersionsOf(type) == {from_str(e.cap).version : e \in WellFormed(type)}
\* The release entries of the tree, and the versions stored in one.
Entries ==
    UNION {{<<b, r>> : r \in DOMAIN tree[b].releases} : b \in DOMAIN tree}
Entry(e) == tree[e[1]].releases[e[2]]
Stored(e) == {Entry(e).versions[k] : k \in DOMAIN Entry(e).versions}

\* C24: in the tree get_releases returns there is a BaseVersion exactly for
\* each branch; each ReleaseEntry is under the BaseVersion of its own base
\* version and stores only versions of its own major.minor.patch; a tag whose
\* base has no branch is in no entry, and every other tag is in exactly one.
C24_TreeShape ==
    scan.phase = "done" =>
        /\ {tree[b].version : b \in DOMAIN tree} = VersionsOf("branch")
        /\ \A e \in Entries :
             /\ get_base_version(Entry(e).release) = tree[e[1]].version
             /\ \A v \in Stored(e) :
                  v.patch # None /\ get_release_version(v) = Entry(e).release
        /\ \A v \in VersionsOf("tag") :
             Cardinality({e \in Entries : v \in Stored(e)}) =
                (IF get_base_version(v) \in VersionsOf("branch") THEN 1 ELSE 0)

\* C25: an entry of the tree get_releases returns is complete if and only if
\* it stores a version without rc, in whatever order the tags were scanned.
C25_CompleteIffFinal ==
    scan.phase = "done" =>
        \A e \in Entries :
            Entry(e).is_complete <=> (\E v \in Stored(e) : v.rc = None)

\* C26: a ref whose captured group is not a usable version is skipped:
\* get_releases, get_versions and get_release_branches do not panic, and
\* return the entries of the well-formed refs.
C26_BadRefIsSkipped ==
    /\ scan.phase # "panic"
    /\ index.status # "panic"
    /\ scan.phase = "done" =>
          VersionsOf("branch") \subseteq {tree[b].version : b \in DOMAIN tree}
\* C31: no failing step of Start, Continue or Finish is swallowed: a step
\* that fails ends the command with an error, and no later step runs.  A
\* step fails when the environment makes it fail, or, for the tagging of the
\* superproject inside commit_release, when the tag is not there afterwards.
C31_NoStepSwallowed ==
    [][(\/ failures' > failures
        \/ pc = "commit_release" /\ next_ver \notin localTags'["s3gw"])
       => (pc' = "idle" /\ result' \notin {"Ok", "running"})]_vars
\* The superproject's tags of the release relver, by their fields.
SuperprojectTagsOf(relver) ==
    {v \in localTags["s3gw"] :
        /\ v.major = relver.major /\ v.minor = relver.minor
        /\ v.patch = relver.patch}
IsRelease(v) == v.patch # None /\ v.rc = None

C33_RemoteDependentsFirst ==
    \A v \in remoteTags["s3gw"] :
        \A r \in Dependents : v \in remoteTags[r]
C33_Witness ==
    /\ failures > 0
    /\ Version(1, 0, 0, 1) \in remoteTags["s3gw"]
    /\ \E r \in Dependents : Version(1, 0, 0, 2) \in remoteTags[r]
    /\ Version(1, 0, 0, 2) \notin remoteTags["s3gw"]

\* The candidate numbers of release relver tagged on a repository's remote.
RemoteCandidates(repo, relver) ==
    {v.rc : v \in {t \in remoteTags[repo] : /\ t.major = relver.major
                                            /\ t.minor = relver.minor
                                            /\ t.patch = relver.patch
                                            /\ t.rc # None}}

\* C34: whatever Start and Continue invocations for a release ran, failed ones
\* included, the candidate numbers tagged on the superproject's remote are
\* 1..n: no number is skipped and none is used twice.
C34_NoGapOnRemote ==
    RemoteCandidates("s3gw", R0) = 1..Cardinality(RemoteCandidates("s3gw", R0))


\* A step that returns one of the errors of the checks that open a command.
PreconditionError ==
    /\ pc' = "idle"
    /\ \/ /\ pc = "start"
          /\ result' \in {"ReleaseExistsError", "ReleaseStartedError",
                          "CorruptedError"}
       \/ /\ pc \in {"continue_release", "check_can_release", "finish"}
          /\ result' \in {"ReleaseExistsError", "NotStartedError"}

\* C35: when Start, Continue or Finish returns a precondition error, the
\* invocation has changed nothing: no branch was cut, no tag made, nothing
\* committed or pushed in any repository, and ReleaseState was not written.
\* The local tags may only have gained tags fetched from the remotes.
C35_PreconditionErrorChangesNothing ==
    [][PreconditionError
       => /\ UNCHANGED <<remoteTags, remoteBranches, localBranches, state>>
          /\ UNCHANGED finishVars
          /\ \A r \in RepoNames : localTags'[r] \subseteq localTags[r] \cup remoteTags[r]
          /\ log' = <<>>]_vars
C35_Witness ==
    /\ Idle("start")
    /\ result = "ReleaseStartedError"
    /\ log = <<>>
    /\ state = NoState
    /\ Version(1, 0, 0, 1) \in remoteTags["s3gw"]


\* The i-th event of the invocation pushes to a remote.
IsPush(i) == log[i][1] \in {"push_branch", "push_tag", "publish"}

\* C36: within one perform_release ui, charts and ceph are all tagged before
\* anything is pushed, so an invocation that returns TaggingError has pushed
\* no branch and no tag to any remote.
C36_TagAllBeforePush ==
    /\ \A i \in 1..Len(log) : IsPush(i) =>
           \A r \in Dependents : \E j \in 1..(i - 1) : log[j] = Ev("tag", r)
    /\ (pc = "idle" /\ result = "TaggingError") =>
           \A i \in 1..Len(log) : ~IsPush(i)
C36_Witness ==
    /\ pc = "idle" /\ result = "TaggingError"
    /\ LogHas(Ev("tag", "ui")) /\ LogHas(Ev("tag", "charts"))
    /\ next_ver \in localTags["ui"] /\ next_ver \notin localTags["ceph"]
    /\ next_ver \notin remoteTags["ui"]


\* C37: force overrides the CI validation gate and nothing else.  A forced
\* Continue or Finish of a release still returns NotStartedError when the
\* superproject has no version of it and ReleaseExistsError when its final
\* version is tagged; past these checks, a forced command is not stopped by
\* a build that is missing, unfinished or failed.
C37_ForceKeepsPreconditions ==
    [][(cmd.force /\ IsRelease(cmd.version))
       => /\ (/\ pc \in {"continue_release", "check_can_release", "finish"}
              /\ SuperprojectTagsOf(cmd.version) = {})
             => (pc' = "idle" /\ result' = "NotStartedError")
          /\ (/\ pc \in {"continue_release", "check_can_release", "finish"}
              /\ cmd.version \in localTags["s3gw"])
             => (pc' = "idle" /\ result' = "ReleaseExistsError")
          /\ (/\ pc \in {"get_release_status", "check_can_release"}
              /\ SuperprojectTagsOf(cmd.version) # {}
              /\ cmd.version \notin localTags["s3gw"]
              /\ ci'.kind # "err")
             => pc' # "idle"]_vars
C37_Witness ==
    /\ Idle("finish") /\ cmd.force
    /\ cmd.version = R0
    /\ result = "ReleaseExistsError"
    /\ R0 \in localTags["s3gw"]
    /\ log = <<>>


\* The runs of the release workflow for the tag that were not cancelled.
ReleaseRuns ==
    {i \in 1..Len(runs) :
        /\ runs[i].name # <<>>
        /\ to_lowercase(runs[i].name[1]) = release_s3gw
        /\ runs[i].conclusion # Some("cancelled")}

\* C38: github_get_latest_release_workflow returns the most recently
\* created run among the runs named "release s3gw" (in any case) that were
\* not cancelled, and None when there is no such run.
C38_ReturnsMostRecentRun ==
    latest.kind \in {"none", "run"} =>
        IF ReleaseRuns = {}
        THEN latest.kind = "none"
        ELSE /\ latest.kind = "run"
             /\ \A i \in ReleaseRuns : runs[i].created_at <= latest.created_at
             /\ \E i \in ReleaseRuns :
                    /\ runs[i].created_at = latest.created_at
                    /\ latest.status = from_github_result(
                           [status |-> Unwrap(runs[i].status, "null"),
                            conclusion |-> Unwrap(runs[i].conclusion, "null")]).status
                    /\ latest.success = (runs[i].conclusion = Some("success"))

=============================================================================
